---- MODULE Spec2Model ----
(***************************************************************************)
(* Cart reconciliation, order submission and order status workflow of the  *)
(* volt storefront: the React client (App component), its persisted cart   *)
(* storage, the api.js transport and the express/MySQL server.             *)
(*                                                                         *)
(* A handler of the client is an async function: the code up to its first  *)
(* await runs in the step that starts it, and every later stretch between   *)
(* two awaits is a step of its task.  A task keeps the values its closure   *)
(* captured when the handler was invoked (cart, products, currentUser and   *)
(* the saveCart bound to that render's activeCartKey); state setters act on *)
(* the live component state.                                                *)
(***************************************************************************)
EXTENDS Bags, FiniteSets, Integers, Sequences, TLC

(***************************************************************************)
(* Bounds of the model.                                                     *)
(***************************************************************************)
NumProducts == 2   \* product ids 1..NumProducts exist at some time
MaxQty == 2        \* a quantity is raised up to MaxQty
MaxOrders == 2     \* orders the server accepts
MaxSubmits == 2    \* handleSubmitOrder invocations in flight at once
MaxDeletes == 1    \* handleDeleteProduct invocations in flight at once
MaxStatusCalls == 2  \* handleAdminSetStatus invocations in flight at once
MaxLegacy == 2     \* length of a legacy flat cart
MaxCartCalls == 2  \* CartPage button calls in flight at once

ProductIds == 1..NumProducts

(***************************************************************************)
(* Identities.  null is the guest; a profile has id, phone and isAdmin.    *)
(***************************************************************************)
Null == "null"
UserIds == {"u1", "u2"}
Admins == {"u1"}
Phone(u) == IF u = "u1" THEN "1001" ELSE "1002"
IsAdmin(u) == u \in Admins

\* orderForm of CartPage with name, phone and address typed in
FilledForm == [name |-> "Ann", phone |-> "1001", address |-> "Minsk"]

\* the users table with the name and address of form in every row
ProfilesOf(form) == [u \in UserIds |-> [name |-> form.name, address |-> form.address]]

\* cartKeyFor = (user) => user?.phone ? `cart:${user.phone}` : "cart:guest"
cartKeyFor(user) == IF user # Null /\ Phone(user) # "" THEN "cart:" \o Phone(user) ELSE "cart:guest"

LegacyKey == "cart"
StorageKeys == {LegacyKey, cartKeyFor(Null)} \cup {cartKeyFor(u) : u \in UserIds}

(***************************************************************************)
(* Persisted blobs: storage.get gives null (NoBlob) or {value: text}; text *)
(* is what JSON.stringify wrote, or text that JSON.parse rejects.           *)
(***************************************************************************)
NoBlob == [kind |-> "none"]
CorruptBlob == [kind |-> "text"]
JSONstringify(v) == [kind |-> "json", value |-> v]
JSONparse(b) == b.value

Row(p, q) == [productId |-> p, qty |-> q]

(***************************************************************************)
(* Money/quantity utilities.  A price is the text of a decimal with at     *)
(* most two fraction digits, as a sequence of characters; numbers are      *)
(* counted in hundredths.                                                  *)
(***************************************************************************)
Digits == <<"0", "1", "2", "3", "4", "5", "6", "7", "8", "9">>
IsDigit(c) == \E i \in 1..10 : Digits[i] = c

\* String(p).replace(",", "."): only the first comma is replaced
RECURSIVE ReplaceFirstComma(_)
ReplaceFirstComma(s) ==
    IF s = <<>> THEN <<>>
    ELSE IF Head(s) = "," THEN <<".">> \o Tail(s)
    ELSE <<Head(s)>> \o ReplaceFirstComma(Tail(s))

\* the longest prefix of digits
RECURSIVE DigitPrefix(_)
DigitPrefix(s) ==
    IF s = <<>> \/ ~IsDigit(Head(s)) THEN <<>>
    ELSE <<Head(s)>> \o DigitPrefix(Tail(s))

RECURSIVE DigitsValue(_, _)
DigitsValue(s, acc) ==
    IF s = <<>> THEN acc
    ELSE DigitsValue(Tail(s), acc * 10 + (CHOOSE i \in 1..10 : Digits[i] = Head(s)) - 1)

\* parseFloat of a non-negative decimal text, in hundredths; NaN is -1
parseFloat(s) ==
    LET ip == DigitPrefix(s)
        rest == SubSeq(s, Len(ip) + 1, Len(s))
        fp == IF rest # <<>> /\ Head(rest) = "." THEN DigitPrefix(Tail(rest)) ELSE <<>>
        f2 == SubSeq(fp \o <<"0", "0">>, 1, 2)
    IN  IF ip = <<>> /\ fp = <<>> THEN -1
        ELSE DigitsValue(ip, 0) * 100 + DigitsValue(f2, 0)

\* priceToNumber without the replace(",", ".")
priceToNumberNoComma(p) ==
    LET n == parseFloat(p) IN IF n = -1 THEN 0 ELSE n

\* priceToNumber = (p) => parseFloat(String(p).replace(",", ".")) || 0
\* (the text and the number are bound as values, so that each is evaluated once)
priceToNumber(p) ==
    CHOOSE r \in {IF n = -1 THEN 0 ELSE n :
                     n \in {parseFloat(text) : text \in {ReplaceFirstComma(p)}}} : TRUE

\* getProductById = (products, id) => products.find((p) => p.id === id)
HasProduct(products, id) == \E i \in 1..Len(products) : products[i].id = id
getProductById(products, id) ==
    products[CHOOSE i \in 1..Len(products) :
                /\ products[i].id = id
                /\ \A j \in 1..(i - 1) : products[j].id # id]

\* the reduce of calcCartTotal over the rows, before .toFixed(2), in hundredths
RECURSIVE cartSum(_, _)
cartSum(cart, products) ==
    IF cart = <<>> THEN 0
    ELSE LET row == cart[Len(cart)]
             before == cartSum(SubSeq(cart, 1, Len(cart) - 1), products)
         IN  IF ~HasProduct(products, row.productId) THEN before
             ELSE before + priceToNumber(getProductById(products, row.productId).price) * row.qty

\* the decimal digits of a natural number
RECURSIVE NatText(_)
NatText(n) ==
    IF n < 10 THEN <<Digits[n + 1]>>
    ELSE NatText(n \div 10) \o <<Digits[(n % 10) + 1]>>

\* (n).toFixed(2) of a non-negative number given in hundredths: the integer
\* part, a point, and exactly two fraction digits
toFixed(n) ==
    NatText(n \div 100) \o <<".">> \o <<Digits[((n % 100) \div 10) + 1], Digits[(n % 10) + 1]>>

\* Number(text) of the text of a non-negative decimal, in hundredths (the
\* text is bound as a value, so that it is evaluated once)
Number(s) == CHOOSE n \in {parseFloat(text) : text \in {s}} : TRUE

\* calcCartTotal = (cart, products) => cart.reduce(...).toFixed(2) (the sum
\* is bound as a value, so that it is evaluated once)
calcCartTotal(cart, products) ==
    CHOOSE text \in {toFixed(sum) : sum \in {cartSum(cart, products)}} : TRUE

\* cartCountTotal = (cart) => cart.reduce((s, r) => s + (r.qty || 0), 0)
RECURSIVE cartCountTotal(_)
cartCountTotal(cart) ==
    IF cart = <<>> THEN 0 ELSE Head(cart).qty + cartCountTotal(Tail(cart))

(***************************************************************************)
(* Cart store, the pure part.                                              *)
(***************************************************************************)
Max(a, b) == IF a >= b THEN a ELSE b

HasRow(c, pid) == \E i \in 1..Len(c) : c[i].productId = pid
FindRow(c, pid) ==
    c[CHOOSE i \in 1..Len(c) :
         /\ c[i].productId = pid
         /\ \A j \in 1..(i - 1) : c[j].productId # pid]

\* getQtyInCart = (productId) => cart.find(...)?.qty || 0
getQtyInCart(c, pid) == IF HasRow(c, pid) THEN FindRow(c, pid).qty ELSE 0

\* cart.filter((r) => r.productId !== productId)
RECURSIVE FilterOut(_, _)
FilterOut(c, pid) ==
    IF c = <<>> THEN <<>>
    ELSE IF Head(c).productId = pid THEN FilterOut(Tail(c), pid)
    ELSE <<Head(c)>> \o FilterOut(Tail(c), pid)

\* setQtyForProduct with Number(nextQty) taken as it comes, not clamped at 0
setQtyNewCartUnclamped(c, pid, nextQty) ==
    LET qty == nextQty
    IN  IF qty = 0 THEN FilterOut(c, pid)
        ELSE IF HasRow(c, pid)
             THEN [i \in 1..Len(c) |->
                      IF c[i].productId = pid THEN [c[i] EXCEPT !.qty = qty] ELSE c[i]]
             ELSE Append(c, Row(pid, qty))

\* a newCart built from the changed row alone, the other rows dropped
setQtyNewCartAlone(c, pid, nextQty) ==
    IF Max(0, nextQty) = 0 THEN <<>> ELSE <<Row(pid, Max(0, nextQty))>>

\* the newCart that setQtyForProduct hands to saveCart
setQtyNewCart(c, pid, nextQty) ==
    LET qty == Max(0, nextQty)
    IN  IF qty = 0 THEN FilterOut(c, pid)
        ELSE IF HasRow(c, pid)
             THEN [i \in 1..Len(c) |->
                      IF c[i].productId = pid THEN [c[i] EXCEPT !.qty = qty] ELSE c[i]]
             ELSE Append(c, Row(pid, qty))

\* the Map of migrateOldCartIfNeeded, as the list of its entries in
\* insertion order; items without an id are skipped
\* a get that never finds the id
MapGetNothing(m, id) == 0

MapGet(m, id) == IF HasRow(m, id) THEN FindRow(m, id).qty ELSE 0
\* a tally that pushes an entry for every occurrence instead of using the Map
MapSetPush(m, id, n) == Append(m, Row(id, n))

MapSet(m, id, n) ==
    IF HasRow(m, id)
    THEN [i \in 1..Len(m) |-> IF m[i].productId = id THEN Row(id, n) ELSE m[i]]
    ELSE Append(m, Row(id, n))

RECURSIVE Tally(_, _)
Tally(items, acc) ==
    IF items = <<>> THEN acc
    ELSE LET id == IF "id" \in DOMAIN Head(items) THEN Head(items).id ELSE 0
         IN  IF id = 0 THEN Tally(Tail(items), acc)
             ELSE Tally(Tail(items), MapSet(acc, id, MapGet(acc, id) + 1))

\* a test that takes every non-empty list for a legacy one
AnyListIsLegacy(parsed) == Len(parsed) > 0

\* does migrateOldCartIfNeeded take its migration branch
IsLegacyShape(parsed) == Len(parsed) > 0 /\ "productId" \notin DOMAIN parsed[1]

\* the value migrateOldCartIfNeeded returns
migrateOldCartIfNeeded(parsed) == IF IsLegacyShape(parsed) THEN Tally(parsed, <<>>) ELSE parsed

(***************************************************************************)
(* State.                                                                  *)
(***************************************************************************)
VARIABLES
    currentUser,            \* App state: null or the profile of the signed-in user
    token,                  \* localStorage "token" of api.js
    cart,                   \* App state: the in-memory cart
    products,               \* App state: the catalog snapshot
    submittingOrder,        \* App state: in-flight flag of handleSubmitOrder
    addToCartPending,       \* App state: product ids with an add in flight
    orderStatusPending,     \* App state: order ids with a status change in flight
    adminOrdersRefreshing,  \* App state: in-flight flag of refreshAdminOrders
    userOrders,             \* App state: the user's own order list
    adminOrders,            \* App state: the administrative order list
    uncaught,               \* handlers whose promise was rejected with no catch
    storage,                \* window.storage: key -> blob
    srvProducts,            \* server table products, ordered by id
    orders,                 \* server table orders; the id is the position
    srvUsers,               \* server table users: name and address of each user
    tasks,                  \* bag of handler invocations suspended at an await
    call                    \* the cart-store call a store-level step applies

vars == <<currentUser, token, cart, products, submittingOrder, addToCartPending,
          orderStatusPending, adminOrdersRefreshing, userOrders, adminOrders,
          uncaught, storage, srvProducts, orders, srvUsers, tasks, call>>

appFlags == <<submittingOrder, addToCartPending, orderStatusPending, adminOrdersRefreshing>>
orderLists == <<userOrders, adminOrders>>
server == <<srvProducts, orders, srvUsers>>

NoCall == [op |-> "none"]

One(t) == SetToBag({t})
TaskSet == BagToSet(tasks)
TasksOf(kind) == {t \in TaskSet : t.kind = kind}
BagOfKind(kind) == [t \in TasksOf(kind) |-> tasks[t]]

\* activeCartKey of the current render
activeCartKey == cartKeyFor(currentUser)

(***************************************************************************)
(* Server: express handlers over the MySQL tables.                         *)
(***************************************************************************)
PriceTexts == { <<"1", "5", ".", "0", "0">>, <<"1", "0", ".", "5", "0">> }
Product(id, price) == [id |-> id, price |-> price]

\* authRequired: a bearer token that verifies; adminRequired: its isAdmin claim
authRequired(tok) == tok \in UserIds
\* an adminRequired that lets every verified token pass
AnyTokenIsAdmin(tok) == TRUE
adminRequired(tok) == IsAdmin(tok)

\* a PUT /api/me that answers without running its UPDATE
updateUserNothing(users, tok, name, address) == users
\* PUT /api/me: UPDATE users SET name=?, address=? WHERE id=?
updateUser(users, tok, name, address) ==
    [users EXCEPT ![tok] = [name |-> name, address |-> address]]

\* GET /api/products ... ORDER BY id, as mapped by loadProductsAndCategories
getProducts == srvProducts

\* DELETE /api/admin/products/:id
RECURSIVE WithoutProduct(_, _)
WithoutProduct(ps, id) ==
    IF ps = <<>> THEN <<>>
    ELSE IF Head(ps).id = id THEN WithoutProduct(Tail(ps), id)
    ELSE <<Head(ps)>> \o WithoutProduct(Tail(ps), id)

\* POST /api/orders: INSERT ... VALUES (req.auth.id, 'new', items, order_info, total)
insertOrder(os, tok, body) ==
    Append(os, [userId |-> tok, status |-> "new", items |-> body.items,
                order_info |-> body.order_info, total |-> body.total])

\* an UPDATE that also recomputes the total from the current catalog
updateOrderStatusAndTotal(os, id, status) ==
    [i \in 1..Len(os) |->
        IF i = id
        THEN [os[i] EXCEPT !.status = status,
                           !.total = Number(calcCartTotal([k \in 1..Len(os[i].items) |->
                                                              Row(os[i].items[k].id, os[i].items[k].qty)],
                                                          srvProducts))]
        ELSE os[i]]
\* PATCH /api/admin/orders/:id: UPDATE orders SET status=? WHERE id=?
updateOrderStatus(os, id, status) ==
    [i \in 1..Len(os) |-> IF i = id THEN [os[i] EXCEPT !.status = status] ELSE os[i]]

\* SELECT ... [WHERE user_id=?] ORDER BY created_at DESC, reduced to the fields
\* the client reads; who = Null selects every order
RECURSIVE OrderList(_, _, _)
OrderList(os, i, who) ==
    IF i = 0 THEN <<>>
    ELSE IF who = Null \/ os[i].userId = who
         THEN <<[id |-> i, status |-> os[i].status]>> \o OrderList(os, i - 1, who)
         ELSE OrderList(os, i - 1, who)

getAllOrders == OrderList(orders, Len(orders), Null)
getMyOrders(tok) == OrderList(orders, Len(orders), tok)

\* what apiFetch can get back for a request sent with token tok: 401 without a
\* verifiable token, 403 from adminRequired, else success or a failure
\* (a 5xx answer, or the AbortController timeout)
Outcomes(tok, admin) ==
    IF ~authRequired(tok) THEN {"401"}
    ELSE IF admin /\ ~adminRequired(tok) THEN {"403"}
    ELSE {"ok", "error"}

\* an apiFetch that leaves the stored token alone
TokenKept(outcome) == token

\* apiFetch: if (res.status === 401) setToken(null)
TokenAfter(outcome) == IF outcome = "401" THEN Null ELSE token

(***************************************************************************)
(* Cart store.                                                             *)
(***************************************************************************)
\* saveCart of the render whose activeCartKey is key
saveCart(newCart, key) ==
    /\ cart' = newCart
    /\ storage' = [storage EXCEPT ![key] = JSONstringify(newCart)]

\* setQtyForProduct, called from the current render
setQtyForProduct(pid, nextQty) == saveCart(setQtyNewCart(cart, pid, nextQty), activeCartKey)

\* incQty, called from the current render
incQty(pid, delta) == setQtyForProduct(pid, getQtyInCart(cart, pid) + delta)

\* the rows CartPage renders: cart rows whose product resolves in the catalog
RenderedRow(pid) == HasRow(cart, pid) /\ HasProduct(products, pid)

\* CartPage minus and plus buttons: onInc(product.id, -1), onInc(product.id, +1)
CartPageInc(pid, delta) ==
    /\ RenderedRow(pid)
    /\ getQtyInCart(cart, pid) + delta <= MaxQty
    /\ incQty(pid, delta)
    /\ UNCHANGED <<currentUser, token, products, appFlags, orderLists, uncaught, server, tasks, call>>

\* CartPage remove button: onSetQty(product.id, 0)
CartPageRemove(pid) ==
    /\ RenderedRow(pid)
    /\ setQtyForProduct(pid, 0)
    /\ UNCHANGED <<currentUser, token, products, appFlags, orderLists, uncaught, server, tasks, call>>

(***************************************************************************)
(* handleSubmitOrder.                                                      *)
(***************************************************************************)
\* handleSubmitOrder without its in-flight check
SubmitNeverBlocked == FALSE
\* if (submittingOrder) return; the button is disabled likewise
SubmitBlocked == submittingOrder

\* a snapshot that keeps a line for every row, resolved or not
ItemsSnapshotOfEveryRow(c, ps) ==
    [i \in 1..Len(c) |->
        IF HasProduct(ps, c[i].productId)
        THEN [id |-> c[i].productId, price |-> getProductById(ps, c[i].productId).price, qty |-> c[i].qty]
        ELSE [id |-> c[i].productId, price |-> <<>>, qty |-> c[i].qty]]
\* itemsSnapshot: cart.map(row => product ? {...product, qty} : null).filter(Boolean)
RECURSIVE ItemsSnapshot(_, _)
ItemsSnapshot(c, ps) ==
    IF c = <<>> THEN <<>>
    ELSE IF HasProduct(ps, Head(c).productId)
         THEN LET product == getProductById(ps, Head(c).productId)
              IN  <<[id |-> product.id, price |-> product.price, qty |-> Head(c).qty]>>
                      \o ItemsSnapshot(Tail(c), ps)
         ELSE ItemsSnapshot(Tail(c), ps)

\* a body whose total is computed from the cart and the catalog as they are
\* when updateProfile answers
OrderBodyLiveTotal(t) ==
    [status |-> "new",
     items |-> ItemsSnapshot(t.cart, t.products),
     order_info |-> [name |-> t.form.name, phone |-> t.form.phone, address |-> t.form.address,
                     nickname |-> t.user],
     total |-> Number(calcCartTotal(cart, products))]
\* the body of api.createOrder, from the closure of the invoking render
OrderBody(t) ==
    [status |-> "new",
     items |-> ItemsSnapshot(t.cart, t.products),
     order_info |-> [name |-> t.form.name, phone |-> t.form.phone, address |-> t.form.address,
                     nickname |-> t.user],
     total |-> Number(calcCartTotal(t.cart, t.products))]

\* a submission that saves the cart as it is
UnclearedCart == cart
\* saveCart([]) after createOrder
ClearedCart == <<>>

\* a submit button that is disabled only while a submission is in flight
DisabledWhileSubmitting(form) == SubmitBlocked
\* the submit button of CartPage: disabled={submittingOrder || !orderForm.name
\* || !orderForm.phone || !orderForm.address}
SubmitDisabled(form) ==
    SubmitBlocked \/ form.name = "" \/ form.phone = "" \/ form.address = ""

\* handleSubmitOrder of the render whose orderForm is form, up to the await
\* of api.updateProfile
SubmitOrderStarts(form) ==
    /\ \E pid \in ProductIds : RenderedRow(pid)
    /\ currentUser # Null
    /\ ~SubmitBlocked
    /\ BagCardinality(BagOfKind("submit")) < MaxSubmits
    /\ submittingOrder' = TRUE
    /\ tasks' = tasks (+) One([kind |-> "submit", pc |-> "updateProfile", user |-> currentUser,
                               cart |-> cart, products |-> products, tok |-> token,
                               form |-> form])
    /\ UNCHANGED <<currentUser, token, cart, products, addToCartPending, orderStatusPending,
                   adminOrdersRefreshing, orderLists, uncaught, storage, server>>

\* the submit button pressed with every field of the order form filled in
HandleSubmitOrder == SubmitOrderStarts(FilledForm) /\ UNCHANGED call

\* a rejection that leaves the in-flight flag as it is
SubmitFailsHolding(t, outcome) ==
    /\ token' = TokenAfter(outcome)
    /\ UNCHANGED submittingOrder
    /\ uncaught' = uncaught \cup {"submit"}
    /\ tasks' = tasks (-) One(t)
\* a rejected await inside try { } finally { setSubmittingOrder(false) }
SubmitFails(t, outcome) ==
    /\ token' = TokenAfter(outcome)
    /\ submittingOrder' = FALSE
    /\ uncaught' = uncaught \cup {"submit"}
    /\ tasks' = tasks (-) One(t)

\* api.updateProfile answers; on success the snapshot is built and createOrder sent
SubmitProfileAnswer(t) ==
    /\ t \in TasksOf("submit") /\ t.pc = "updateProfile"
    /\ \E outcome \in Outcomes(t.tok, FALSE) \cup {"lost"} :
          \/ /\ outcome = "ok"
             /\ srvUsers' = updateUser(srvUsers, t.tok, t.form.name, t.form.address)
             /\ tasks' = (tasks (-) One(t)) (+)
                              One([kind |-> "submit", pc |-> "createOrder", user |-> t.user,
                                   tok |-> token, body |-> OrderBody(t)])
             /\ UNCHANGED <<token, submittingOrder, uncaught>>
          \/ /\ outcome = "lost"    \* the UPDATE is done, the answer times out
             /\ authRequired(t.tok)
             /\ srvUsers' = updateUser(srvUsers, t.tok, t.form.name, t.form.address)
             /\ SubmitFails(t, outcome)
          \/ /\ outcome \notin {"ok", "lost"}
             /\ SubmitFails(t, outcome)
             /\ UNCHANGED srvUsers
    /\ UNCHANGED <<currentUser, cart, products, addToCartPending, orderStatusPending,
                   adminOrdersRefreshing, orderLists, storage, srvProducts, orders, call>>

\* api.createOrder answers; on success saveCart([]) of the invoking render
SubmitOrderAnswer(t) ==
    /\ t \in TasksOf("submit") /\ t.pc = "createOrder"
    /\ \E outcome \in Outcomes(t.tok, FALSE) \cup {"lost"} :
          \/ /\ outcome = "ok"
             /\ Len(orders) < MaxOrders
             /\ orders' = insertOrder(orders, t.tok, t.body)
             /\ saveCart(ClearedCart, cartKeyFor(t.user))
             /\ tasks' = (tasks (-) One(t)) (+) One([kind |-> "submit", pc |-> "save", user |-> t.user, tok |-> t.tok])
             /\ UNCHANGED <<token, submittingOrder, uncaught>>
          \/ /\ outcome = "lost"    \* the INSERT is done, the answer times out
             /\ authRequired(t.tok)
             /\ Len(orders) < MaxOrders
             /\ orders' = insertOrder(orders, t.tok, t.body)
             /\ SubmitFails(t, outcome)
             /\ UNCHANGED <<cart, storage>>
          \/ /\ outcome \notin {"ok", "lost"}
             /\ SubmitFails(t, outcome)
             /\ UNCHANGED <<cart, storage, orders>>
    /\ UNCHANGED <<currentUser, products, addToCartPending, orderStatusPending,
                   adminOrdersRefreshing, orderLists, srvProducts, srvUsers, call>>

\* after await saveCart([]): the notification, then loadUserOrders() of the closure
SubmitSaved(t) ==
    /\ t \in TasksOf("submit") /\ t.pc = "save"
    /\ tasks' = (tasks (-) One(t)) (+) One([t EXCEPT !.pc = "getMyOrders", !.tok = token])
    /\ UNCHANGED <<currentUser, token, cart, products, appFlags, orderLists, uncaught,
                   storage, server, call>>

\* api.getMyOrders answers; an administrator's closure goes on to loadAdminOrders()
SubmitMyOrdersAnswer(t) ==
    /\ t \in TasksOf("submit") /\ t.pc = "getMyOrders"
    /\ \E outcome \in Outcomes(t.tok, FALSE) :
          \/ /\ outcome = "ok"
             /\ userOrders' = getMyOrders(t.tok)
             /\ IF IsAdmin(t.user)
                THEN /\ tasks' = (tasks (-) One(t)) (+)
                                     One([t EXCEPT !.pc = "getAllOrders", !.tok = token])
                     /\ UNCHANGED submittingOrder
                ELSE /\ tasks' = tasks (-) One(t)
                     /\ submittingOrder' = FALSE
             /\ UNCHANGED <<token, uncaught>>
          \/ /\ outcome # "ok"
             /\ SubmitFails(t, outcome)
             /\ UNCHANGED userOrders
    /\ UNCHANGED <<currentUser, cart, products, addToCartPending, orderStatusPending,
                   adminOrdersRefreshing, adminOrders, storage, server, call>>

\* api.getAllOrders answers; then the finally block
SubmitAllOrdersAnswer(t) ==
    /\ t \in TasksOf("submit") /\ t.pc = "getAllOrders"
    /\ \E outcome \in Outcomes(t.tok, TRUE) :
          \/ /\ outcome = "ok"
             /\ adminOrders' = getAllOrders
             /\ tasks' = tasks (-) One(t)
             /\ submittingOrder' = FALSE
             /\ UNCHANGED <<token, uncaught>>
          \/ /\ outcome # "ok"
             /\ SubmitFails(t, outcome)
             /\ UNCHANGED adminOrders
    /\ UNCHANGED <<currentUser, cart, products, addToCartPending, orderStatusPending,
                   adminOrdersRefreshing, userOrders, storage, server, call>>

(***************************************************************************)
(* loadProductsAndCategories and handleDeleteProduct.                      *)
(***************************************************************************)
\* setProducts(mapped), or setProducts([]) in the catch block
ProductsAfter(outcome) == IF outcome = "ok" THEN getProducts ELSE <<>>

\* the loadProductsAndCategories() the mount effect starts
LoadProductsAnswer(t) ==
    /\ t \in TasksOf("loadProducts")
    /\ \E outcome \in {"ok", "error"} : products' = ProductsAfter(outcome)
    /\ tasks' = tasks (-) One(t)
    /\ UNCHANGED <<currentUser, token, cart, appFlags, orderLists, uncaught, storage, server, call>>

HandleDeleteProduct(pid) ==
    /\ HasProduct(products, pid)
    /\ currentUser # Null /\ IsAdmin(currentUser)
    /\ BagCardinality(BagOfKind("deleteProduct")) < MaxDeletes
    /\ tasks' = tasks (+) One([kind |-> "deleteProduct", pc |-> "deleteProduct", user |-> currentUser,
                               cart |-> cart, arg |-> pid, tok |-> token])
    /\ UNCHANGED <<currentUser, token, cart, products, appFlags, orderLists, uncaught,
                   storage, server, call>>

\* api.deleteProduct answers; on success loadProductsAndCategories() is started
DeleteProductAnswer(t) ==
    /\ t \in TasksOf("deleteProduct") /\ t.pc = "deleteProduct"
    /\ \E outcome \in Outcomes(t.tok, TRUE) \cup {"lost"} :
          \/ /\ outcome = "ok"
             /\ srvProducts' = WithoutProduct(srvProducts, t.arg)
             /\ tasks' = (tasks (-) One(t)) (+) One([t EXCEPT !.pc = "loadProducts"])
             /\ UNCHANGED <<token, uncaught>>
          \/ /\ outcome = "lost"
             /\ authRequired(t.tok) /\ adminRequired(t.tok)
             /\ srvProducts' = WithoutProduct(srvProducts, t.arg)
             /\ uncaught' = uncaught \cup {"deleteProduct"}
             /\ tasks' = tasks (-) One(t)
             /\ UNCHANGED token
          \/ /\ outcome \notin {"ok", "lost"}
             /\ token' = TokenAfter(outcome)
             /\ uncaught' = uncaught \cup {"deleteProduct"}
             /\ tasks' = tasks (-) One(t)
             /\ UNCHANGED srvProducts
    /\ UNCHANGED <<currentUser, cart, products, appFlags, orderLists, storage, orders, srvUsers, call>>

\* the catalog reload answers; then the clean-up of the closure's cart
DeleteProductReloaded(t) ==
    /\ t \in TasksOf("deleteProduct") /\ t.pc = "loadProducts"
    /\ \E outcome \in {"ok", "error"} : products' = ProductsAfter(outcome)
    /\ LET cleanedCart == FilterOut(t.cart, t.arg)
       IN  IF Len(cleanedCart) # Len(t.cart)
           THEN saveCart(cleanedCart, cartKeyFor(t.user))
           ELSE UNCHANGED <<cart, storage>>
    /\ tasks' = tasks (-) One(t)
    /\ UNCHANGED <<currentUser, token, appFlags, orderLists, uncaught, server, call>>

(***************************************************************************)
(* loadCartForCurrentUser, as run by the effect on activeCartKey and by the *)
(* mount effect; handleLogout has its own copy without the legacy          *)
(* fallback.  A loading task has user, pc, blob and val.                   *)
(***************************************************************************)
LoadPcs == {"get", "getOld", "migrated", "migratedOld", "deleted"}

\* an end of the load that persists the empty cart under the key
LoadedEmptyPersisted(same, key) ==
    [same EXCEPT !.pc = "loaded", !.val = <<>>,
                 !.storage = [same.storage EXCEPT ![key] = JSONstringify(<<>>)]]

\* the end of a load that found nothing: setCart([])
LoadedEmpty(same, key) == [same EXCEPT !.pc = "loaded", !.val = <<>>]

\* the stretch of the load of task t up to its next await, storage being st
LoadNext(t, st) ==
    LET key == cartKeyFor(t.user)
        same == [pc |-> t.pc, blob |-> t.blob, val |-> t.val, storage |-> st]
    IN  CASE t.pc = "get" ->
               IF t.blob # NoBlob
               THEN IF t.blob = CorruptBlob THEN [same EXCEPT !.pc = "throw"]
                    ELSE LET parsed == JSONparse(t.blob)
                             migrated == migrateOldCartIfNeeded(parsed)
                         IN  IF IsLegacyShape(parsed)
                             THEN [same EXCEPT !.pc = "migrated", !.val = migrated,
                                               !.storage = [st EXCEPT ![key] = JSONstringify(migrated)]]
                             ELSE [same EXCEPT !.pc = "loaded", !.val = migrated]
               ELSE IF t.kind = "logout" THEN LoadedEmpty(same, key)
               ELSE [same EXCEPT !.pc = "getOld", !.blob = st[LegacyKey]]
          [] t.pc = "migrated" -> [same EXCEPT !.pc = "loaded"]
          [] t.pc = "getOld" ->
               IF t.blob # NoBlob
               THEN IF t.blob = CorruptBlob THEN [same EXCEPT !.pc = "throw"]
                    ELSE LET parsed == JSONparse(t.blob)
                             migrated == migrateOldCartIfNeeded(parsed)
                         IN  IF IsLegacyShape(parsed)
                             THEN [same EXCEPT !.pc = "migratedOld", !.val = migrated,
                                               !.storage = [st EXCEPT ![key] = JSONstringify(migrated)]]
                             ELSE [same EXCEPT !.pc = "deleted", !.val = migrated,
                                               !.storage = [st EXCEPT ![LegacyKey] = NoBlob]]
               ELSE LoadedEmpty(same, key)
          [] t.pc = "migratedOld" ->
               [same EXCEPT !.pc = "deleted", !.storage = [st EXCEPT ![LegacyKey] = NoBlob]]
          [] t.pc = "deleted" -> [same EXCEPT !.pc = "loaded"]

\* bound of the model: one identity transition (mount, logout and the loads
\* they start) at a time
IdentityBusy == \E t \in TaskSet : t.kind \in {"load", "logout", "mount", "auth"}

\* a stretch of a load that ends at another storage await
LoadStep(t) ==
    /\ t \in TaskSet
    /\ t.kind \in {"load", "logout", "mount", "auth"} /\ t.pc \in LoadPcs
    /\ LET n == LoadNext(t, storage)
       IN  /\ n.pc \in LoadPcs
           /\ storage' = n.storage
           /\ tasks' = (tasks (-) One(t)) (+) One([t EXCEPT !.pc = n.pc, !.blob = n.blob, !.val = n.val])
    /\ UNCHANGED <<currentUser, token, cart, products, appFlags, orderLists, uncaught, server, call>>

\* the task a call of loadCartForCurrentUser(u) leaves at its first await
LoadTask(kind, u) ==
    [kind |-> kind, pc |-> "get", user |-> u, blob |-> storage[cartKeyFor(u)], val |-> <<>>]

\* useEffect(..., [activeCartKey]): runs loadCartForCurrentUser() when the key changed
CartKeyEffect(newUser) ==
    IF cartKeyFor(newUser) # activeCartKey THEN One(LoadTask("load", newUser)) ELSE EmptyBag

\* the last stretch of the effect's load: setCart(migrated)
EffectLoaded(t) ==
    /\ t \in TasksOf("load") /\ LoadNext(t, storage).pc = "loaded"
    /\ cart' = LoadNext(t, storage).val
    /\ tasks' = tasks (-) One(t)
    /\ UNCHANGED <<currentUser, token, products, appFlags, orderLists, uncaught, storage, server, call>>

(***************************************************************************)
(* handleLogout.                                                           *)
(***************************************************************************)
HandleLogout ==
    /\ currentUser # Null
    /\ ~IdentityBusy
    /\ token' = Null
    /\ currentUser' = Null
    /\ tasks' = (tasks (+) One(LoadTask("logout", Null))) (+) CartKeyEffect(Null)
    /\ UNCHANGED <<cart, products, appFlags, orderLists, uncaught, storage, server, call>>

\* setCart(migrated) or setCart([]), then the notification
LogoutLoaded(t) ==
    /\ t \in TasksOf("logout") /\ LoadNext(t, storage).pc = "loaded"
    /\ cart' = LoadNext(t, storage).val
    /\ tasks' = tasks (-) One(t)
    /\ UNCHANGED <<currentUser, token, products, appFlags, orderLists, uncaught, storage, server, call>>

(***************************************************************************)
(* The mount effect.                                                       *)
(***************************************************************************)
\* fetchProfile: the profile of the token sent, or null in its catch block
ProfileOf(tok, outcome) == IF outcome = "ok" THEN tok ELSE Null

\* fetchProfile answers: setCurrentUser and loadCartForCurrentUser of the result
MountProfileAnswer(t) ==
    /\ t \in TasksOf("mount") /\ t.pc = "fetchProfile"
    /\ \E outcome \in Outcomes(t.tok, FALSE) :
          LET prof == ProfileOf(t.tok, outcome)
          IN  /\ token' = TokenAfter(outcome)
              /\ currentUser' = prof
              /\ tasks' = ((tasks (-) One(t)) (+) One(LoadTask("mount", prof))) (+) CartKeyEffect(prof)
    /\ UNCHANGED <<cart, products, appFlags, orderLists, uncaught, storage, server, call>>

\* setCart(migrated); with a profile, loadUserOrders() and loadAdminOrders() of
\* the first render's closure, where currentUser is null
MountLoaded(t) ==
    /\ t \in TasksOf("mount") /\ t.pc \in LoadPcs /\ LoadNext(t, storage).pc = "loaded"
    /\ cart' = LoadNext(t, storage).val
    /\ userOrders' = IF t.user # Null THEN <<>> ELSE userOrders
    /\ adminOrders' = IF t.user # Null /\ IsAdmin(t.user) THEN <<>> ELSE adminOrders
    /\ tasks' = tasks (-) One(t)
    /\ UNCHANGED <<currentUser, token, products, appFlags, uncaught, storage, server, call>>

(***************************************************************************)
(* handleAdminSetStatus and refreshAdminOrders.                            *)
(***************************************************************************)
\* the three status buttons of an active order in ProfilePage
StatusButtons == {"in_work", "done", "canceled"}

\* activeAdmin: the orders of the list that get status buttons
activeAdmin == {adminOrders[i].id : i \in {j \in 1..Len(adminOrders) :
                                              adminOrders[j].status \in {"new", "in_work"}}}

\* handleAdminSetStatus without its in-flight check
StatusNeverBlocked(orderId) == FALSE
\* if (orderStatusPending[orderId]) return; the buttons are disabled likewise
StatusBlocked(orderId) == orderId \in orderStatusPending

HandleAdminSetStatus(orderId, status) ==
    /\ currentUser # Null /\ IsAdmin(currentUser)
    /\ orderId \in activeAdmin
    /\ ~StatusBlocked(orderId)
    /\ BagCardinality(BagOfKind("setStatus")) < MaxStatusCalls
    /\ orderStatusPending' = orderStatusPending \cup {orderId}
    /\ tasks' = tasks (+) One([kind |-> "setStatus", pc |-> "setOrderStatus", user |-> currentUser,
                               arg |-> orderId, status |-> status, tok |-> token])
    /\ UNCHANGED <<currentUser, token, cart, products, submittingOrder, addToCartPending,
                   adminOrdersRefreshing, orderLists, uncaught, storage, server, call>>

\* a rejection that leaves the order in orderStatusPending
SetStatusFailsHolding(t, outcome) ==
    /\ token' = TokenAfter(outcome)
    /\ UNCHANGED orderStatusPending
    /\ uncaught' = uncaught \cup {"setStatus"}
    /\ tasks' = tasks (-) One(t)

\* a rejected await inside try { } finally { delete copy[orderId] }
SetStatusFails(t, outcome) ==
    /\ token' = TokenAfter(outcome)
    /\ orderStatusPending' = orderStatusPending \ {t.arg}
    /\ uncaught' = uncaught \cup {"setStatus"}
    /\ tasks' = tasks (-) One(t)

\* an optimistic variant: on success the row of the local list is patched
\* and the guard released without a reload
SetStatusAnswerPatching(t) ==
    /\ t \in TasksOf("setStatus") /\ t.pc = "setOrderStatus"
    /\ \E outcome \in Outcomes(t.tok, TRUE) \cup {"lost"} :
          \/ /\ outcome = "ok"
             /\ orders' = updateOrderStatus(orders, t.arg, t.status)
             /\ adminOrders' = [i \in DOMAIN adminOrders |->
                                   IF adminOrders[i].id = t.arg
                                   THEN [adminOrders[i] EXCEPT !.status = t.status]
                                   ELSE adminOrders[i]]
             /\ orderStatusPending' = orderStatusPending \ {t.arg}
             /\ tasks' = tasks (-) One(t)
             /\ UNCHANGED <<token, uncaught>>
          \/ /\ outcome = "lost"
             /\ adminRequired(t.tok)
             /\ orders' = updateOrderStatus(orders, t.arg, t.status)
             /\ SetStatusFails(t, outcome)
             /\ UNCHANGED adminOrders
          \/ /\ outcome \notin {"ok", "lost"}
             /\ SetStatusFails(t, outcome)
             /\ UNCHANGED <<orders, adminOrders>>
    /\ UNCHANGED <<currentUser, cart, products, submittingOrder, addToCartPending,
                   adminOrdersRefreshing, userOrders, storage, srvProducts, srvUsers, call>>

\* api.setOrderStatus answers; on success loadAdminOrders() of the closure
SetStatusAnswer(t) ==
    /\ t \in TasksOf("setStatus") /\ t.pc = "setOrderStatus"
    /\ \E outcome \in Outcomes(t.tok, TRUE) \cup {"lost"} :
          \/ /\ outcome = "ok"
             /\ orders' = updateOrderStatus(orders, t.arg, t.status)
             /\ tasks' = (tasks (-) One(t)) (+) One([t EXCEPT !.pc = "getAllOrders", !.tok = token])
             /\ UNCHANGED <<token, orderStatusPending, uncaught>>
          \/ /\ outcome = "lost"    \* the UPDATE is done, the answer times out
             /\ adminRequired(t.tok)
             /\ orders' = updateOrderStatus(orders, t.arg, t.status)
             /\ SetStatusFails(t, outcome)
          \/ /\ outcome \notin {"ok", "lost"}
             /\ SetStatusFails(t, outcome)
             /\ UNCHANGED orders
    /\ UNCHANGED <<currentUser, cart, products, submittingOrder, addToCartPending,
                   adminOrdersRefreshing, orderLists, storage, srvProducts, srvUsers, call>>

\* api.getAllOrders answers: setAdminOrders, then the finally block
SetStatusReloaded(t) ==
    /\ t \in TasksOf("setStatus") /\ t.pc = "getAllOrders"
    /\ \E outcome \in Outcomes(t.tok, TRUE) :
          \/ /\ outcome = "ok"
             /\ adminOrders' = getAllOrders
             /\ orderStatusPending' = orderStatusPending \ {t.arg}
             /\ tasks' = tasks (-) One(t)
             /\ UNCHANGED <<token, uncaught>>
          \/ /\ outcome # "ok"
             /\ SetStatusFails(t, outcome)
             /\ UNCHANGED adminOrders
    /\ UNCHANGED <<currentUser, cart, products, submittingOrder, addToCartPending,
                   adminOrdersRefreshing, userOrders, storage, server, call>>

\* refreshAdminOrders: if (adminOrdersRefreshing) return
RefreshAdminOrders ==
    /\ currentUser # Null /\ IsAdmin(currentUser)
    /\ ~adminOrdersRefreshing
    /\ adminOrdersRefreshing' = TRUE
    /\ tasks' = tasks (+) One([kind |-> "refresh", pc |-> "getAllOrders", tok |-> token])
    /\ UNCHANGED <<currentUser, token, cart, products, submittingOrder, addToCartPending,
                   orderStatusPending, orderLists, uncaught, storage, server, call>>

\* api.getAllOrders answers: setAdminOrders or the rejection, then the finally block
RefreshAnswer(t) ==
    /\ t \in TasksOf("refresh")
    /\ \E outcome \in Outcomes(t.tok, TRUE) :
          /\ adminOrders' = IF outcome = "ok" THEN getAllOrders ELSE adminOrders
          /\ token' = TokenAfter(outcome)
          /\ uncaught' = IF outcome = "ok" THEN uncaught ELSE uncaught \cup {"refresh"}
    /\ adminOrdersRefreshing' = FALSE
    /\ tasks' = tasks (-) One(t)
    /\ UNCHANGED <<currentUser, cart, products, submittingOrder, addToCartPending,
                   orderStatusPending, userOrders, storage, server, call>>

(***************************************************************************)
(* Requests of other sessions, as the server handles them.                 *)
(***************************************************************************)
\* the body another session's handleSubmitOrder sends; the server reads
\* items, order_info and total, and ignores status
SessionOrderBody(u, c, status) ==
    [status |-> status,
     items |-> ItemsSnapshot(c, srvProducts),
     order_info |-> [nickname |-> u, phone |-> Phone(u)],
     total |-> Number(calcCartTotal(c, srvProducts))]

\* POST /api/orders with the token of u
PostOrder(u, c, status) ==
    /\ authRequired(u)
    /\ Len(orders) < MaxOrders
    /\ orders' = insertOrder(orders, u, SessionOrderBody(u, c, status))
    /\ UNCHANGED <<currentUser, token, cart, products, appFlags, orderLists, uncaught,
                   storage, srvProducts, srvUsers, tasks, call>>

\* PATCH /api/admin/orders/:id with the token of administrator u
PatchOrder(u, id, status) ==
    /\ authRequired(u) /\ adminRequired(u)
    /\ id \in 1..Len(orders)
    /\ orders' = updateOrderStatus(orders, id, status)
    /\ UNCHANGED <<currentUser, token, cart, products, appFlags, orderLists, uncaught,
                   storage, srvProducts, srvUsers, tasks, call>>

\* PUT /api/admin/products/:id: UPDATE products SET ... price=? ... WHERE id=?
updateProduct(ps, id, price) ==
    [i \in 1..Len(ps) |-> IF ps[i].id = id THEN [ps[i] EXCEPT !.price = price] ELSE ps[i]]

PutProduct(u, id, price) ==
    /\ authRequired(u) /\ adminRequired(u)
    /\ HasProduct(srvProducts, id)
    /\ srvProducts' = updateProduct(srvProducts, id, price)
    /\ UNCHANGED <<currentUser, token, cart, products, appFlags, orderLists, uncaught,
                   storage, orders, srvUsers, tasks, call>>

\* DELETE /api/admin/products/:id with the token of administrator u
DeleteProduct(u, id) ==
    /\ authRequired(u) /\ adminRequired(u)
    /\ HasProduct(srvProducts, id)
    /\ srvProducts' = WithoutProduct(srvProducts, id)
    /\ UNCHANGED <<currentUser, token, cart, products, appFlags, orderLists, uncaught,
                   storage, orders, srvUsers, tasks, call>>

(***************************************************************************)
(* The client from its first render: mount, cart edits, product deletion   *)
(* by an administrator, logout.                                            *)
(***************************************************************************)
EmptyStorage == [k \in StorageKeys |-> NoBlob]

\* legacy flat carts: product-like objects, id 0 standing for a missing id
LegacyCarts == UNION {[1..n -> {[id |-> i] : i \in 0..NumProducts}] : n \in 1..MaxLegacy}

InitialProducts ==
    [i \in 1..NumProducts |->
        Product(i, IF i = 1 THEN <<"1", "5", ".", "0", "0">> ELSE <<"1", "0", ".", "5", "0">>)]

\* the cart holding every product of the catalog once
CatalogCart == [i \in 1..NumProducts |-> Row(i, 1)]

\* what earlier sessions of this browser left in window.storage: nothing, a
\* legacy flat cart, or the cart of the administrator
PriorStorages ==
    {EmptyStorage,
     [EmptyStorage EXCEPT ![LegacyKey] = JSONstringify([i \in 1..NumProducts |-> [id |-> i]])],
     [EmptyStorage EXCEPT ![cartKeyFor("u1")] = JSONstringify(CatalogCart)]}

MountTasks(tok) ==
    (One([kind |-> "mount", pc |-> "fetchProfile", tok |-> tok])
       (+) One([kind |-> "loadProducts", pc |-> "fetch"]))
       (+) One([kind |-> "load", pc |-> "get", user |-> Null, blob |-> NoBlob, val |-> <<>>])

Init ==
    /\ currentUser = Null
    /\ token \in {Null, "u1"}
    /\ cart = <<>>
    /\ products = <<>>
    /\ submittingOrder = FALSE
    /\ addToCartPending = {}
    /\ orderStatusPending = {}
    /\ adminOrdersRefreshing = FALSE
    /\ userOrders = <<>>
    /\ adminOrders = <<>>
    /\ uncaught = {}
    /\ storage \in PriorStorages
    /\ srvProducts = InitialProducts
    /\ orders = <<>>
    /\ srvUsers = ProfilesOf(FilledForm)
    /\ tasks = MountTasks(token)
    /\ call = NoCall

Next ==
    \/ \E pid \in ProductIds, delta \in {-1, 1} : CartPageInc(pid, delta)
    \/ \E pid \in ProductIds : CartPageRemove(pid)
    \/ \E t \in TaskSet : LoadProductsAnswer(t)
    \/ \E pid \in ProductIds : HandleDeleteProduct(pid)
    \/ \E t \in TaskSet : DeleteProductAnswer(t)
    \/ \E t \in TaskSet : DeleteProductReloaded(t)
    \/ \E t \in TaskSet : LoadStep(t)
    \/ \E t \in TaskSet : EffectLoaded(t)
    \/ HandleLogout
    \/ \E t \in TaskSet : LogoutLoaded(t)
    \/ \E t \in TaskSet : MountProfileAnswer(t)
    \/ \E t \in TaskSet : MountLoaded(t)

Spec == Init /\ [][Next]_vars

(***************************************************************************)
(* A signed-in session at the cart page: cart edits, order submission and   *)
(* logout.                                                                 *)
(***************************************************************************)
\* carts of up to NumProducts rows, one row per product, qty in 1..MaxQty
RECURSIVE CartsOver(_)
CartsOver(ids) ==
    IF ids = {} THEN {<<>>}
    ELSE UNION {{<<Row(p, q)>> \o c : q \in 1..MaxQty, c \in CartsOver(ids \ {p})} : p \in ids}
             \cup UNION {CartsOver(ids \ {p}) : p \in ids}

InitSubmit ==
    /\ currentUser \in UserIds
    /\ token = currentUser
    /\ cart \in CartsOver(ProductIds) \ {<<>>}
    /\ products \in {InitialProducts, WithoutProduct(InitialProducts, 1)}
    /\ submittingOrder = FALSE
    /\ addToCartPending = {}
    /\ orderStatusPending = {}
    /\ adminOrdersRefreshing = FALSE
    /\ userOrders = <<>>
    /\ adminOrders = <<>>
    /\ uncaught = {}
    /\ storage = [EmptyStorage EXCEPT ![cartKeyFor(currentUser)] = JSONstringify(cart)]
    /\ srvProducts = InitialProducts
    /\ orders = <<>>
    /\ srvUsers = ProfilesOf(FilledForm)
    /\ tasks = EmptyBag
    /\ call = NoCall

NextSubmit ==
    \/ \E pid \in ProductIds, delta \in {-1, 1} : CartPageInc(pid, delta)
    \/ \E pid \in ProductIds : CartPageRemove(pid)
    \/ HandleSubmitOrder
    \/ \E t \in TaskSet : SubmitProfileAnswer(t)
    \/ \E t \in TaskSet : SubmitOrderAnswer(t)
    \/ \E t \in TaskSet : SubmitSaved(t)
    \/ \E t \in TaskSet : SubmitMyOrdersAnswer(t)
    \/ \E t \in TaskSet : SubmitAllOrdersAnswer(t)
    \/ HandleLogout
    \/ \E t \in TaskSet : LoadStep(t)
    \/ \E t \in TaskSet : EffectLoaded(t)
    \/ \E t \in TaskSet : LogoutLoaded(t)

SpecSubmit == InitSubmit /\ [][NextSubmit]_vars

(***************************************************************************)
(* An administrator's session at the order list, with orders and status    *)
(* changes arriving from other sessions.                                   *)
(***************************************************************************)
InitStatus ==
    /\ currentUser = "u1"
    /\ token = "u1"
    /\ cart = <<>>
    /\ products = InitialProducts
    /\ submittingOrder = FALSE
    /\ addToCartPending = {}
    /\ orderStatusPending = {}
    /\ adminOrdersRefreshing = FALSE
    /\ userOrders = <<>>
    /\ adminOrders = <<>>
    /\ uncaught = {}
    /\ storage = EmptyStorage
    /\ srvProducts = InitialProducts
    /\ orders = <<>>
    /\ srvUsers = ProfilesOf(FilledForm)
    /\ tasks = EmptyBag
    /\ call = NoCall

NextStatus ==
    \/ \E orderId \in 1..MaxOrders, status \in StatusButtons : HandleAdminSetStatus(orderId, status)
    \/ \E t \in TaskSet : SetStatusAnswer(t)
    \/ \E t \in TaskSet : SetStatusReloaded(t)
    \/ RefreshAdminOrders
    \/ \E t \in TaskSet : RefreshAnswer(t)
    \/ \E u \in UserIds, status \in {"new", "done"} : PostOrder(u, CatalogCart, status)
    \/ \E u \in Admins, id \in 1..MaxOrders, status \in StatusButtons : PatchOrder(u, id, status)

SpecStatus == InitStatus /\ [][NextStatus]_vars

(***************************************************************************)
(* The server tables under the requests of any number of sessions.         *)
(***************************************************************************)
InitOrders ==
    /\ currentUser = Null
    /\ token = Null
    /\ cart = <<>>
    /\ products = <<>>
    /\ submittingOrder = FALSE
    /\ addToCartPending = {}
    /\ orderStatusPending = {}
    /\ adminOrdersRefreshing = FALSE
    /\ userOrders = <<>>
    /\ adminOrders = <<>>
    /\ uncaught = {}
    /\ storage = EmptyStorage
    /\ srvProducts = InitialProducts
    /\ orders = <<>>
    /\ srvUsers = ProfilesOf(FilledForm)
    /\ tasks = EmptyBag
    /\ call = NoCall

NextOrders ==
    \/ \E u \in UserIds, c \in {<<Row(p, 1)>> : p \in ProductIds}, status \in {"new", "done"} : PostOrder(u, c, status)
    \/ \E u \in Admins, id \in 1..MaxOrders, status \in StatusButtons : PatchOrder(u, id, status)
    \/ \E u \in Admins, id \in ProductIds, price \in PriceTexts : PutProduct(u, id, price)
    \/ \E u \in Admins, id \in ProductIds : DeleteProduct(u, id)

SpecOrders == InitOrders /\ [][NextOrders]_vars

(***************************************************************************)
(* The cart store on its own: its operations applied one after another,    *)
(* each run to completion, with arguments from bounded sets.  call names    *)
(* the operation applied last.                                             *)
(***************************************************************************)

StoreCall(op, pid, arg) == [op |-> op, productId |-> pid, arg |-> arg]

\* loadCartForCurrentUser(u) from its first storage.get to setCart
RECURSIVE RunLoad(_, _)
RunLoad(t, st) ==
    LET n == LoadNext(t, st)
    IN  IF n.pc \in LoadPcs
        THEN RunLoad([t EXCEPT !.pc = n.pc, !.blob = n.blob, !.val = n.val], n.storage)
        ELSE n

storeFrame == <<token, appFlags, orderLists, uncaught, server, tasks>>

\* load(identityKey) for the key of u
StoreLoad(u) ==
    /\ LET r == RunLoad(LoadTask("load", u), storage)
       IN  /\ r.pc = "loaded"
           /\ cart' = r.val
           /\ storage' = r.storage
    /\ currentUser' = u
    /\ call' = StoreCall("load", 0, 0)
    /\ UNCHANGED <<products, storeFrame>>

StoreSetQty(pid, qty) ==
    /\ setQtyForProduct(pid, qty)
    /\ call' = StoreCall("setQty", pid, qty)
    /\ UNCHANGED <<currentUser, products, storeFrame>>

StoreIncQty(pid, delta) ==
    /\ getQtyInCart(cart, pid) + delta <= MaxQty
    /\ incQty(pid, delta)
    /\ call' = StoreCall("incQty", pid, delta)
    /\ UNCHANGED <<currentUser, products, storeFrame>>

\* clear(): saveCart([])
StoreClear ==
    /\ saveCart(ClearedCart, activeCartKey)
    /\ call' = StoreCall("clear", 0, 0)
    /\ UNCHANGED <<currentUser, products, storeFrame>>

\* the clean-up at the end of handleDeleteProduct
StoreCleanUp(pid) ==
    /\ LET cleanedCart == FilterOut(cart, pid)
       IN  IF Len(cleanedCart) # Len(cart)
           THEN saveCart(cleanedCart, activeCartKey)
           ELSE UNCHANGED <<cart, storage>>
    /\ call' = StoreCall("cleanUp", pid, 0)
    /\ UNCHANGED <<currentUser, products, storeFrame>>

\* the catalogs left by deleting products from the first one
RECURSIVE KeepProducts(_, _)
KeepProducts(ps, ids) ==
    IF ps = <<>> THEN <<>>
    ELSE IF Head(ps).id \in ids THEN <<Head(ps)>> \o KeepProducts(Tail(ps), ids)
    ELSE KeepProducts(Tail(ps), ids)

\* the snapshot and total handleSubmitOrder computes, for the cart as it is
\* and the catalog ps
StoreSnapshot(ps) ==
    /\ products' = ps
    /\ call' = [op |-> "snapshot", productId |-> 0, arg |-> 0,
                items |-> ItemsSnapshot(cart, ps), total |-> Number(calcCartTotal(cart, ps))]
    /\ UNCHANGED <<currentUser, cart, storage, storeFrame>>

InitStore ==
    /\ currentUser = Null
    /\ token = Null
    /\ cart = <<>>
    /\ products = InitialProducts
    /\ submittingOrder = FALSE
    /\ addToCartPending = {}
    /\ orderStatusPending = {}
    /\ adminOrdersRefreshing = FALSE
    /\ userOrders = <<>>
    /\ adminOrders = <<>>
    /\ uncaught = {}
    /\ storage \in {EmptyStorage} \cup {[EmptyStorage EXCEPT ![LegacyKey] = JSONstringify(l)] : l \in LegacyCarts}
    /\ srvProducts = InitialProducts
    /\ orders = <<>>
    /\ srvUsers = ProfilesOf(FilledForm)
    /\ tasks = EmptyBag
    /\ call = NoCall

NextStore ==
    \/ \E u \in {Null, "u1"} : StoreLoad(u)
    \/ \E pid \in ProductIds, qty \in (0 - MaxQty)..MaxQty : StoreSetQty(pid, qty)
    \/ \E pid \in ProductIds, delta \in {-1, 1} : StoreIncQty(pid, delta)
    \/ StoreClear
    \/ \E pid \in ProductIds : StoreCleanUp(pid)
    \/ \E ps \in {KeepProducts(InitialProducts, ids) : ids \in SUBSET ProductIds} :
          StoreSnapshot(ps)

SpecStore == InitStore /\ [][NextStore]_vars

(***************************************************************************)
(* Properties of the cart store.                                           *)
(***************************************************************************)
RowsFor(c, pid) == {i \in 1..Len(c) : c[i].productId = pid}

IsCartRow(r) == DOMAIN r = {"productId", "qty"}

WellFormedCart(c) ==
    /\ \A i \in 1..Len(c) : IsCartRow(c[i]) /\ c[i].qty >= 1
    /\ \A i, j \in 1..Len(c) : c[i].productId = c[j].productId => i = j

CartKeys == StorageKeys \ {LegacyKey}

\* C1: the in-memory cart and every blob persisted under a cart key hold at most
\* one row per productId, and every row has qty >= 1, after any sequence of
\* load (with legacy migration), setQty, incQty, clear and delete clean-up
CartRowsWellFormed ==
    /\ WellFormedCart(cart)
    /\ \A k \in CartKeys : storage[k] # NoBlob => WellFormedCart(JSONparse(storage[k]))

\* a legacy cart has been migrated into a counted row and the cart edited since
CartRowsWellFormedWitness ==
    /\ call.op \in {"setQty", "incQty"}
    /\ storage[LegacyKey] = NoBlob
    /\ Len(cart) = 2
    /\ \E i \in 1..2 : cart[i].qty = 2
    /\ storage[activeCartKey] = JSONstringify(cart)

\* C10: setQty(productId, q) leaves no row for productId when q <= 0, exactly one
\* row with qty = q when q >= 1, and the rows of every other product as they were
SetQtyContract ==
    [][call'.op = "setQty" =>
         LET pid == call'.productId
             q == call'.arg
         IN  /\ q <= 0 => RowsFor(cart', pid) = {}
             /\ q >= 1 => /\ Cardinality(RowsFor(cart', pid)) = 1
                          /\ \A i \in RowsFor(cart', pid) : cart'[i].qty = q
             /\ \A other \in ProductIds \ {pid} :
                   /\ Cardinality(RowsFor(cart', other)) = Cardinality(RowsFor(cart, other))
                   /\ {cart'[i].qty : i \in RowsFor(cart', other)} = {cart[i].qty : i \in RowsFor(cart, other)}
      ]_vars

\* setQty with a negative quantity has removed a row and left the other one
SetQtyContractWitness ==
    /\ call.op = "setQty" /\ call.arg < 0
    /\ RowsFor(cart, call.productId) = {}
    /\ Len(cart) = 1
    /\ storage[activeCartKey] = JSONstringify(cart)

(***************************************************************************)
(* Properties of the order snapshot.                                       *)
(***************************************************************************)
ItemLinesFor(items, pid) == {i \in 1..Len(items) : items[i].id = pid}

\* the sum of price * qty over the products that have both a row and a
\* catalog entry
RECURSIVE ResolvedTotal(_, _, _)
ResolvedTotal(ids, c, ps) ==
    IF ids = {} THEN 0
    ELSE LET p == CHOOSE x \in ids : TRUE
         IN  (IF HasProduct(ps, p) /\ HasRow(c, p)
              THEN priceToNumber(getProductById(ps, p).price) * getQtyInCart(c, p)
              ELSE 0) + ResolvedTotal(ids \ {p}, c, ps)

\* C6: the items list built for a cart and a catalog has exactly one line, the
\* product's fields with the row's qty, for every row whose productId is in
\* the catalog, no line for a row whose productId is absent, and the total
\* counts 0 for an absent product
StaleRowsExcluded ==
    call.op = "snapshot" =>
        /\ \A pid \in ProductIds :
              IF HasProduct(products, pid)
              THEN /\ Cardinality(ItemLinesFor(call.items, pid)) = Cardinality(RowsFor(cart, pid))
                   /\ \A i \in ItemLinesFor(call.items, pid) :
                         call.items[i] = [id |-> pid,
                                          price |-> getProductById(products, pid).price,
                                          qty |-> getQtyInCart(cart, pid)]
              ELSE ItemLinesFor(call.items, pid) = {}
        /\ \A i \in 1..Len(call.items) : call.items[i].id \in ProductIds
        /\ call.total = ResolvedTotal(ProductIds, cart, products)

\* a snapshot of a two-row cart one of whose products is gone from the catalog
StaleRowsExcludedWitness ==
    /\ call.op = "snapshot"
    /\ Len(cart) = 2
    /\ \E i \in 1..Len(cart) : ~HasProduct(products, cart[i].productId)
    /\ Len(call.items) = 1
    /\ call.total > 0

(***************************************************************************)
(* Properties of the identity transitions.                                 *)
(***************************************************************************)
\* the cart persisted under the guest key after the step
GuestKeyContentNext ==
    IF storage'[cartKeyFor(Null)] = NoBlob THEN <<>> ELSE JSONparse(storage'[cartKeyFor(Null)])

\* C2: once the guest cart is loaded (nobody is signed in and no identity
\* transition is under way), every step that changes the in-memory cart leaves
\* it equal to the content of the guest key: no row of the cart of the user
\* who signed out comes into it
GuestCartOnlyFromGuestKey ==
    [][(currentUser = Null /\ currentUser' = Null /\ ~IdentityBusy /\ cart' # cart)
           => cart' = GuestKeyContentNext
      ]_vars

(***************************************************************************)
(* Properties of the order submission.                                     *)
(***************************************************************************)
\* the submissions in flight after the step
SubmitBagNext == [t \in {x \in BagToSet(tasks') : x.kind = "submit"} |-> tasks'[t]]

\* the step in which createOrder of submission t answers with success
CreateOrderSucceeds(t) ==
    /\ t \in TasksOf("submit") /\ t.pc = "createOrder"
    /\ \E n \in DOMAIN SubmitBagNext :
          /\ n.pc = "save"
          /\ tasks' = (tasks (-) One(t)) (+) One(n)

\* the step in which updateProfile or createOrder of submission t is rejected
SubmissionFails(t) ==
    /\ t \in TasksOf("submit") /\ t.pc \in {"updateProfile", "createOrder"}
    /\ tasks' = tasks (-) One(t)

\* a step of handleSubmitOrder other than the answer of a successful createOrder
SubmissionStepWithoutSuccess ==
    /\ SubmitBagNext # BagOfKind("submit")
    /\ ~ \E t \in TaskSet : CreateOrderSucceeds(t)

\* C3: at most one submission is in flight, and the in-flight flag is set while
\* it is: a second trigger starts no second updateProfile or createOrder
OneSubmissionInFlight ==
    /\ BagCardinality(BagOfKind("submit")) <= 1
    /\ BagCardinality(BagOfKind("submit")) = 1 => submittingOrder

\* a submission waits for createOrder while the submit button's row is still there
OneSubmissionInFlightWitness ==
    /\ \E t \in TasksOf("submit") : t.pc = "createOrder"
    /\ submittingOrder
    /\ currentUser # Null
    /\ \E pid \in ProductIds : RenderedRow(pid)

\* C4: the step in which createOrder succeeds empties the in-memory cart and
\* writes the empty cart under the submitter's key, and no other step of a
\* submission changes the cart or the storage
CartClearedOnSuccessOnly ==
    [][/\ \A t \in TaskSet : CreateOrderSucceeds(t) =>
              /\ cart' = <<>>
              /\ storage'[cartKeyFor(t.user)] = JSONstringify(<<>>)
       /\ SubmissionStepWithoutSuccess => UNCHANGED <<cart, storage>>
      ]_vars

\* createOrder has succeeded for a cart with rows: the order is stored, the
\* cart and the blob of the submitter are empty
CartClearedOnSuccessOnlyWitness ==
    /\ \E t \in TasksOf("submit") :
          /\ t.pc = "save"
          /\ storage[cartKeyFor(t.user)] = JSONstringify(<<>>)
          /\ currentUser = t.user
    /\ cart = <<>>
    /\ Len(orders) = 1
    /\ orders[1].items # <<>>

\* C5: the step in which updateProfile or createOrder is rejected leaves the
\* cart and the storage as they are and resets submittingOrder, so that the
\* next trigger is accepted; the steps of the submission before it left the
\* cart and the storage alone as well
FailedSubmissionLeavesCart ==
    [][/\ \A t \in TaskSet : SubmissionFails(t) =>
              /\ UNCHANGED <<cart, storage>>
              /\ submittingOrder' = FALSE
       /\ (submittingOrder' /\ ~submittingOrder) => UNCHANGED <<cart, storage>>
       /\ \A t \in TaskSet :
              (t.kind = "submit" /\ t.pc = "updateProfile" /\ t \notin BagToSet(tasks'))
                  => UNCHANGED <<cart, storage>>
      ]_vars

\* a submission has failed before any order was stored: the cart and its blob
\* are there, and the flag is reset
FailedSubmissionLeavesCartWitness ==
    /\ "submit" \in uncaught
    /\ orders = <<>>
    /\ BagOfKind("submit") = EmptyBag
    /\ ~submittingOrder
    /\ currentUser # Null
    /\ cart # <<>>
    /\ storage[activeCartKey] = JSONstringify(cart)

(***************************************************************************)
(* Properties of the stored orders.                                        *)
(***************************************************************************)
\* C7: a stored order keeps its items, order_info and total in every step:
\* product updates and deletions, status changes and further orders leave
\* them as createOrder stored them
OrdersImmutable ==
    [][\A i \in 1..Len(orders) :
           /\ i <= Len(orders')
           /\ orders'[i].items = orders[i].items
           /\ orders'[i].order_info = orders[i].order_info
           /\ orders'[i].total = orders[i].total
      ]_vars

\* an order whose status has changed still lists a product that has since
\* been deleted from the catalog
OrdersImmutableWitness ==
    \E i \in 1..Len(orders) :
        /\ orders[i].status = "done"
        /\ orders[i].total > 0
        /\ \E k \in 1..Len(orders[i].items) : ~HasProduct(srvProducts, orders[i].items[k].id)

\* C8: every order is created with status new, and an order whose status is
\* done or canceled keeps that status in every step
StatusLifecycle ==
    [][/\ Len(orders') > Len(orders) => orders'[Len(orders')].status = "new"
       /\ \A i \in 1..Len(orders) :
              (orders[i].status \in {"done", "canceled"} /\ i <= Len(orders'))
                  => orders'[i].status = orders[i].status
      ]_vars

\* the status changes in flight for order id
StatusCallsFor(id) ==
    BagCardinality([t \in {x \in TasksOf("setStatus") : x.arg = id} |-> tasks[t]])

\* C9: at most one status change is in flight for an order id, and it is in
\* flight exactly while the id is marked pending; status changes of different
\* orders are in flight together
OneStatusCallPerOrder ==
    \A id \in 1..MaxOrders :
        /\ StatusCallsFor(id) <= 1
        /\ StatusCallsFor(id) = 1 <=> id \in orderStatusPending

\* status changes of two orders are in flight at once, one of them for an
\* order whose buttons are still in the list
OneStatusCallPerOrderWitness ==
    /\ \E t1, t2 \in TasksOf("setStatus") :
          /\ t1.arg # t2.arg
          /\ t1.pc = "setOrderStatus"
          /\ t1.arg \in activeAdmin
    /\ Cardinality(orderStatusPending) = 2

(***************************************************************************)
(* Totals: calcCartTotal and cartCountTotal applied to a cart and a        *)
(* catalog as the cart page and the header render them.                    *)
(***************************************************************************)
\* a catalog, ordered by id, of some of the products 1 and 5 with some
\* prices: with a point, with a comma, an integer, and two that do not parse
\* (letters, the empty text)
TotalsCatalogs ==
    LET prices == { <<"1", "5", ".", "0", "0">>, <<"1", "0", ",", "5", "0">>, <<"7">>,
                    <<"a", "b", "c">>, <<>> }
        opt(id) == {<<>>} \cup {<<Product(id, pr)>> : pr \in prices}
    IN  {a \o b : a \in opt(1), b \in opt(5)}

\* carts of at most two rows of distinct products; 9 is an id no catalog has
TotalsCarts ==
    LET rows == {Row(p, q) : p \in {1, 5, 9}, q \in 1..(MaxQty + 1)}
    IN  {<<>>} \cup {<<r>> : r \in rows}
               \cup {<<pair[1], pair[2]>> : pair \in {x \in rows \X rows : x[1].productId # x[2].productId}}

\* CartPage line 947 and App line 2028: the total and the count rendered
RenderTotals ==
    /\ call.op # "totals"
    /\ call' = [op |-> "totals", productId |-> 0, arg |-> 0,
                total |-> calcCartTotal(cart, products), count |-> cartCountTotal(cart)]
    /\ UNCHANGED <<currentUser, cart, products, storage, storeFrame>>

InitTotals ==
    /\ currentUser = Null
    /\ token = Null
    /\ cart \in TotalsCarts
    /\ products \in TotalsCatalogs
    /\ submittingOrder = FALSE
    /\ addToCartPending = {}
    /\ orderStatusPending = {}
    /\ adminOrdersRefreshing = FALSE
    /\ userOrders = <<>>
    /\ adminOrders = <<>>
    /\ uncaught = {}
    /\ storage = EmptyStorage
    /\ srvProducts = InitialProducts
    /\ orders = <<>>
    /\ srvUsers = ProfilesOf(FilledForm)
    /\ tasks = EmptyBag
    /\ call = NoCall


SpecTotals == InitTotals /\ [][RenderTotals]_vars

\* the value, in hundredths, each price text stands for: a comma or a point
\* separates the fraction, a text that is no number counts 0
PriceValue(pr) ==
    CASE pr = <<"1", "5", ".", "0", "0">> -> 1500
      [] pr = <<"1", "0", ",", "5", "0">> -> 1050
      [] pr = <<"7">> -> 700
      [] OTHER -> 0

\* the subtotal of the row at index i: 0 when its product is absent
RowSubtotal(c, ps, i) ==
    IF \E k \in 1..Len(ps) : ps[k].id = c[i].productId
    THEN PriceValue((CHOOSE pr \in {ps[k] : k \in 1..Len(ps)} : pr.id = c[i].productId).price) * c[i].qty
    ELSE 0

\* a text of digits, a point and exactly two digits
TwoDecimals(s) ==
    /\ Len(s) >= 4
    /\ s[Len(s) - 2] = "."
    /\ \A i \in (1..Len(s)) \ {Len(s) - 2} : IsDigit(s[i])
    /\ Len(s) > 4 => s[1] # "0"

\* the number of hundredths a two-decimal text stands for
TwoDecimalsValue(s) ==
    DigitsValue(SubSeq(s, 1, Len(s) - 3), 0) * 100 + DigitsValue(SubSeq(s, Len(s) - 1, Len(s)), 0)

\* C11: the cart total is the sum over the rows of price * qty, a row whose
\* product is absent and a price that does not parse counting 0, written with
\* exactly two decimals, and the cart count is the sum of the qty of all rows
CartTotalAndCount ==
    call.op = "totals" =>
        LET n == Len(cart)
            sub(i) == IF i <= n THEN RowSubtotal(cart, products, i) ELSE 0
            qty(i) == IF i <= n THEN cart[i].qty ELSE 0
        IN  /\ TwoDecimals(call.total)
            /\ TwoDecimalsValue(call.total) = sub(1) + sub(2)
            /\ call.count = qty(1) + qty(2)
            /\ (cart = <<Row(1, 2)>> /\ products = <<Product(1, <<"1", "0", ",", "5", "0">>)>>)
                  => call.total = <<"2", "1", ".", "0", "0">>
            /\ (cart = <<Row(5, 3)>> /\ products = <<Product(5, <<"1", "5", ".", "0", "0">>)>>)
                  => call.total = <<"4", "5", ".", "0", "0">> /\ call.count = 3

\* the total of a cart with a row at a comma price, next to a row whose
\* product is absent, has been rendered
CartTotalAndCountWitness ==
    /\ call.op = "totals"
    /\ cart = <<Row(1, 2), Row(9, 1)>>
    /\ products = <<Product(1, <<"1", "0", ",", "5", "0">>), Product(5, <<"a", "b", "c">>)>>
    /\ call.total = <<"2", "1", ".", "0", "0">>
    /\ call.count = 3

(***************************************************************************)
(* Loads: loadCartForCurrentUser run from its first storage.get to its end *)
(* against what earlier versions and sessions left in window.storage.      *)
(***************************************************************************)
\* blobs under an identity key: none, text that is no JSON, counted carts,
\* the empty cart, a flat list left under the key
KeyedBlobs ==
    {NoBlob, CorruptBlob, JSONstringify(<<>>), JSONstringify(<<Row(1, MaxQty)>>),
     JSONstringify(CatalogCart), JSONstringify(<<[id |-> 1], [id |-> 1]>>)}

\* loadCartForCurrentUser(u), whole: setCart on its normal end, the rejection
\* of its promise when JSON.parse throws
LoadCart(u) ==
    /\ LET r == RunLoad(LoadTask("load", u), storage)
       IN  /\ storage' = r.storage
           /\ cart' = IF r.pc = "loaded" THEN r.val ELSE cart
           /\ call' = [op |-> "load", productId |-> 0, arg |-> 0, user |-> u,
                       before |-> storage, cartBefore |-> cart, threw |-> (r.pc = "throw")]
    /\ currentUser' = u
    /\ UNCHANGED <<products, storeFrame>>

InitLoad ==
    /\ currentUser = Null
    /\ token = Null
    /\ cart = <<>>
    /\ products = InitialProducts
    /\ submittingOrder = FALSE
    /\ addToCartPending = {}
    /\ orderStatusPending = {}
    /\ adminOrdersRefreshing = FALSE
    /\ userOrders = <<>>
    /\ adminOrders = <<>>
    /\ uncaught = {}
    \* under the legacy key: none, text that is no JSON, a flat list of
    \* product-like objects, the empty list
    /\ \E old \in {NoBlob, CorruptBlob} \cup {JSONstringify(l) : l \in LegacyCarts \cup {<<>>}},
          guest \in KeyedBlobs, own \in KeyedBlobs :
          storage = [EmptyStorage EXCEPT ![LegacyKey] = old,
                                         ![cartKeyFor(Null)] = guest,
                                         ![cartKeyFor("u1")] = own]
    /\ srvProducts = InitialProducts
    /\ orders = <<>>
    /\ srvUsers = ProfilesOf(FilledForm)
    /\ tasks = EmptyBag
    /\ call = NoCall

NextLoad == \E u \in {Null, "u1"} : LoadCart(u)

SpecLoad == InitLoad /\ [][NextLoad]_vars

\* the blob a load for user u finds first, under the key of u or else under
\* the legacy key, in storage st
BlobFound(st, u) ==
    IF st[cartKeyFor(u)] # NoBlob THEN st[cartKeyFor(u)] ELSE st[LegacyKey]

\* a flat list of product-like objects: no element has a qty
IsFlatList(l) == \A i \in 1..Len(l) : "qty" \notin DOMAIN l[i]

\* a list of counted rows
IsCounted(l) == \A i \in 1..Len(l) : IsCartRow(l[i])

\* C12: migrating the result of a migration changes nothing (migrate(migrate(L))
\* = migrate(L) for every legacy flat cart L), and a load that finds an
\* already migrated cart under the identity key returns it as it is and
\* leaves storage as it was
MigrationIdempotent ==
    (call.op = "load" /\ ~call.threw /\ BlobFound(call.before, call.user) # NoBlob) =>
        LET found == JSONparse(BlobFound(call.before, call.user))
            own == call.before[cartKeyFor(call.user)]
        IN  /\ IsFlatList(found) =>
                  /\ cart = migrateOldCartIfNeeded(found)
                  /\ migrateOldCartIfNeeded(migrateOldCartIfNeeded(found)) = migrateOldCartIfNeeded(found)
            /\ (own # NoBlob /\ IsCounted(found)) =>
                  /\ cart = found
                  /\ storage = call.before

\* a load has found under the identity key the cart an earlier load migrated
\* there from the legacy key
MigrationIdempotentWitness ==
    /\ call.op = "load" /\ ~call.threw
    /\ call.before[LegacyKey] = NoBlob
    /\ call.before[cartKeyFor(call.user)] = JSONstringify(<<Row(2, 2)>>)
    /\ cart = <<Row(2, 2)>>
    /\ storage = call.before

\* the number of items of the flat list l that carry the id pid
RECURSIVE Occurrences(_, _)
Occurrences(l, pid) ==
    IF l = <<>> THEN 0
    ELSE (IF "id" \in DOMAIN Head(l) /\ Head(l).id = pid THEN 1 ELSE 0) + Occurrences(Tail(l), pid)

\* the cart c has one row for every id that occurs in the flat list l, with
\* qty the number of its occurrences, and no other row
IsTallyOf(c, l) ==
    /\ \A i \in 1..Len(c) : IsCartRow(c[i]) /\ c[i].productId \in ProductIds
    /\ \A pid \in ProductIds :
          IF Occurrences(l, pid) = 0 THEN RowsFor(c, pid) = {}
          ELSE /\ Cardinality(RowsFor(c, pid)) = 1
               /\ \A i \in RowsFor(c, pid) : c[i].qty = Occurrences(l, pid)

\* the last call was a load that found no blob under its identity key and a
\* legacy flat list under the key "cart"
LoadedFromLegacy ==
    /\ call.op = "load" /\ ~call.threw
    /\ call.before[cartKeyFor(call.user)] = NoBlob
    /\ call.before[LegacyKey] \notin {NoBlob, CorruptBlob}

\* C13 as stated: a load from a legacy blob returns the tally of the legacy
\* list, persists that cart under the identity key and deletes the key "cart"
LegacyLoadPersistsTally ==
    LoadedFromLegacy =>
        /\ IsTallyOf(cart, JSONparse(call.before[LegacyKey]))
        /\ storage[cartKeyFor(call.user)] = JSONstringify(cart)
        /\ storage[LegacyKey] = NoBlob

\* C13: a load from a legacy blob returns the tally of the legacy list and
\* deletes the key "cart"; it persists that cart under the identity key when
\* the legacy list is not empty, and writes nothing under the identity key
\* when the legacy list is empty
LegacyLoadMigrates ==
    LoadedFromLegacy =>
        LET l == JSONparse(call.before[LegacyKey])
        IN  /\ IsTallyOf(cart, l)
            /\ storage[LegacyKey] = NoBlob
            /\ storage[cartKeyFor(call.user)] = IF l = <<>> THEN NoBlob ELSE JSONstringify(cart)
            /\ \A k \in CartKeys \ {cartKeyFor(call.user)} : storage[k] = call.before[k]

\* a legacy list naming one product twice has been loaded as one row of qty 2
LegacyLoadMigratesWitness ==
    /\ LoadedFromLegacy
    /\ call.before[LegacyKey] = JSONstringify(<<[id |-> 1], [id |-> 1]>>)
    /\ cart = <<Row(1, 2)>>
    /\ storage[cartKeyFor(call.user)] = JSONstringify(cart)
    /\ storage[LegacyKey] = NoBlob

\* C14: a load that finds no blob under the identity key and none under the
\* key "cart" returns the empty cart and leaves storage as it was
EmptyLoadLeavesStorage ==
    (/\ call.op = "load"
     /\ call.before[cartKeyFor(call.user)] = NoBlob
     /\ call.before[LegacyKey] = NoBlob) =>
        /\ ~call.threw
        /\ cart = <<>>
        /\ storage = call.before

\* a load that found nothing has replaced a cart that had rows
EmptyLoadLeavesStorageWitness ==
    /\ call.op = "load" /\ ~call.threw
    /\ call.before[cartKeyFor(call.user)] = NoBlob
    /\ call.before[LegacyKey] = NoBlob
    /\ call.cartBefore # <<>>
    /\ cart = <<>>
    /\ storage = call.before

\* C15 as stated: a load that finds text that is no JSON, under the identity
\* key or else under the key "cart", ends without an error and with the
\* empty cart in memory
CorruptBlobLoadsEmpty ==
    (call.op = "load" /\ BlobFound(call.before, call.user) = CorruptBlob) =>
        /\ ~call.threw
        /\ cart = <<>>

\* C16 as stated, its first half: a failure of updateProfile, createOrder,
\* setOrderStatus or of the reload of an order list is caught by the handler
\* that awaited it (and then notified once); no promise of handleSubmitOrder
\* or handleAdminSetStatus is rejected with nobody to catch it
WorkflowFailuresCaught ==
    /\ "submit" \notin uncaught
    /\ "setStatus" \notin uncaught

(***************************************************************************)
(* handleAddToCart.                                                        *)
(***************************************************************************)
\* one guard for all products: any add-to-cart in flight blocks every other
AddToCartBlockedByAny(pid) == addToCartPending # {}
\* if (addToCartPending[product.id]) return; the button is disabled likewise
AddToCartBlocked(pid) == pid \in addToCartPending

\* up to the await of window.storage.set inside saveCart; written says
\* whether the set stores the blob or throws (a full localStorage)
HandleAddToCart(pid, written) ==
    /\ HasProduct(products, pid)
    /\ currentUser # Null
    /\ ~AddToCartBlocked(pid)
    /\ getQtyInCart(cart, pid) < MaxQty
    /\ addToCartPending' = addToCartPending \cup {pid}
    /\ IF written THEN incQty(pid, 1)
       ELSE /\ cart' = setQtyNewCart(cart, pid, getQtyInCart(cart, pid) + 1)
            /\ UNCHANGED storage
    /\ tasks' = tasks (+) One([kind |-> "addToCart", pc |-> "save", arg |-> pid, written |-> written])
    /\ UNCHANGED <<currentUser, token, products, submittingOrder, orderStatusPending,
                   adminOrdersRefreshing, orderLists, uncaught, server, call>>

\* the finally block, once the save has resolved or has been rejected
AddToCartSaved(t) ==
    /\ t \in TasksOf("addToCart")
    /\ addToCartPending' = addToCartPending \ {t.arg}
    /\ uncaught' = IF t.written THEN uncaught ELSE uncaught \cup {"addToCart"}
    /\ tasks' = tasks (-) One(t)
    /\ UNCHANGED <<currentUser, token, cart, products, submittingOrder, orderStatusPending,
                   adminOrdersRefreshing, orderLists, storage, server, call>>

(***************************************************************************)
(* The in-flight flags: a signed-in administrator submits orders, changes  *)
(* order statuses and adds products to the cart.  The token in             *)
(* localStorage is one the server verifies, or one it verifies no more.    *)
(***************************************************************************)
\* a token whose jwt.verify fails: expired, or signed with another secret
ExpiredToken == "expired"

\* an order another session has placed
PlacedOrder ==
    [userId |-> "u2", status |-> "new",
     items |-> ItemsSnapshot(<<Row(1, 1)>>, InitialProducts),
     order_info |-> [nickname |-> "u2", phone |-> Phone("u2")],
     total |-> Number(calcCartTotal(<<Row(1, 1)>>, InitialProducts))]


InitInFlight ==
    /\ currentUser = "u1"
    /\ token = "u1"
    /\ cart = <<Row(1, 1)>>
    /\ products = KeepProducts(InitialProducts, {1})
    /\ submittingOrder = FALSE
    /\ addToCartPending = {}
    /\ orderStatusPending = {}
    /\ adminOrdersRefreshing = FALSE
    /\ userOrders = <<>>
    /\ uncaught = {}
    /\ storage = [EmptyStorage EXCEPT ![cartKeyFor("u1")] = JSONstringify(<<Row(1, 1)>>)]
    /\ srvProducts = KeepProducts(InitialProducts, {1})
    /\ orders = <<PlacedOrder>>
    /\ srvUsers = ProfilesOf(FilledForm)
    /\ adminOrders = getAllOrders
    /\ tasks = EmptyBag
    /\ call = NoCall

\* the awaits of handleSubmitOrder, of handleAdminSetStatus for order n and
\* of handleAddToCart for product p settling
SubmitSettles ==
    \E t \in TaskSet :
        \/ SubmitProfileAnswer(t) \/ SubmitOrderAnswer(t) \/ SubmitSaved(t)
        \/ SubmitMyOrdersAnswer(t) \/ SubmitAllOrdersAnswer(t)

SetStatusSettles(n) ==
    \E t \in {x \in TasksOf("setStatus") : x.arg = n} : SetStatusAnswer(t) \/ SetStatusReloaded(t)

AddToCartSettles(p) ==
    \E t \in {x \in TasksOf("addToCart") : x.arg = p} : AddToCartSaved(t)

\* bound of the model: the workflows in flight at once
MaxInFlight == 1
UserIdle == BagCardinality(tasks) < MaxInFlight

NextInFlight ==
    \/ UserIdle /\ HandleSubmitOrder
    \/ SubmitSettles
    \/ UserIdle /\ \E orderId \in 1..MaxOrders, status \in StatusButtons : HandleAdminSetStatus(orderId, status)
    \/ \E n \in 1..MaxOrders : SetStatusSettles(n)
    \/ UserIdle /\ \E pid \in ProductIds, written \in BOOLEAN : HandleAddToCart(pid, written)
    \/ \E p \in ProductIds : AddToCartSettles(p)

SpecInFlight == InitInFlight /\ [][NextInFlight]_vars

\* every await settles: apiFetch answers or aborts after DEFAULT_TIMEOUT_MS,
\* window.storage resolves or rejects
FairInFlight ==
    /\ SpecInFlight
    /\ WF_vars(SubmitSettles)
    /\ \A n \in 1..MaxOrders : WF_vars(SetStatusSettles(n))
    /\ \A p \in ProductIds : WF_vars(AddToCartSettles(p))

\* the calls of handleAddToCart in flight for product p
AddCallsFor(p) == BagCardinality([t \in {x \in TasksOf("addToCart") : x.arg = p} |-> tasks[t]])

\* a flag is set exactly while its action is in flight
FlagsFollowActions ==
    /\ submittingOrder <=> BagOfKind("submit") # EmptyBag
    /\ \A n \in 1..MaxOrders : n \in orderStatusPending <=> StatusCallsFor(n) > 0
    /\ \A p \in ProductIds : p \in addToCartPending <=> AddCallsFor(p) > 0

\* the step that ends an action starts no request in its place: no task is
\* added in a step that clears a flag
NoRetryOnFinish ==
    (\/ submittingOrder /\ ~submittingOrder'
     \/ orderStatusPending' # orderStatusPending /\ orderStatusPending' \subseteq orderStatusPending
     \/ addToCartPending' # addToCartPending /\ addToCartPending' \subseteq addToCartPending)
        => /\ BagToSet(tasks') \subseteq BagToSet(tasks)
           /\ BagCardinality(tasks') = BagCardinality(tasks) - 1

\* C17: every in-flight flag that is set is cleared in the end, whatever the
\* outcome of the action: submittingOrder becomes false, order n leaves
\* orderStatusPending, product p leaves addToCartPending; a flag is set only
\* while its action is in flight, and the end of an action starts no retry
InFlightFlagsCleared ==
    /\ submittingOrder ~> ~submittingOrder
    /\ \A n \in 1..MaxOrders : (n \in orderStatusPending) ~> (n \notin orderStatusPending)
    /\ \A p \in ProductIds : (p \in addToCartPending) ~> (p \notin addToCartPending)
    /\ []FlagsFollowActions
    /\ [][NoRetryOnFinish]_vars

\* a submission, a status change and an add to cart have each failed, and a
\* later submission is past createOrder; no flag but submittingOrder is set
InFlightFlagsClearedWitness ==
    /\ {"submit", "setStatus", "addToCart"} \subseteq uncaught
    /\ \E t \in TasksOf("submit") : t.pc = "getMyOrders"
    /\ submittingOrder
    /\ orderStatusPending = {}
    /\ addToCartPending = {}

(***************************************************************************)
(* The session token: an administrator's session whose stored token the    *)
(* server may verify no more, changing statuses and refreshing the list.   *)
(***************************************************************************)
InitToken ==
    /\ currentUser = "u1"
    /\ token \in {"u1", ExpiredToken}
    /\ cart = <<>>
    /\ products = InitialProducts
    /\ submittingOrder = FALSE
    /\ addToCartPending = {}
    /\ orderStatusPending = {}
    /\ adminOrdersRefreshing = FALSE
    /\ userOrders = <<>>
    /\ uncaught = {}
    /\ storage = EmptyStorage
    /\ srvProducts = InitialProducts
    /\ orders = <<PlacedOrder>>
    /\ srvUsers = ProfilesOf(FilledForm)
    /\ adminOrders = getAllOrders
    /\ tasks = EmptyBag
    /\ call = NoCall

NextToken ==
    \/ \E orderId \in 1..MaxOrders, status \in StatusButtons : HandleAdminSetStatus(orderId, status)
    \/ \E t \in TaskSet : SetStatusAnswer(t)
    \/ \E t \in TaskSet : SetStatusReloaded(t)
    \/ RefreshAdminOrders
    \/ \E t \in TaskSet : RefreshAnswer(t)

SpecToken == InitToken /\ [][NextToken]_vars

\* the tasks that wait for the answer to a request of apiFetch
IsRequest(t) ==
    /\ "tok" \in DOMAIN t
    /\ t.pc \in {"fetchProfile", "updateProfile", "createOrder", "getMyOrders", "getAllOrders",
                  "setOrderStatus"}

\* C18: the step in which a request is answered 401 leaves no token stored,
\* whichever action sent the request; every request is sent with the token
\* stored at that time, and a token that was cleared is not stored again, so
\* no request sent after the answer carries it
TokenClearedOn401 ==
    [][/\ (\E t \in TaskSet : /\ IsRequest(t) /\ ~authRequired(t.tok)
                                /\ CopiesIn(t, tasks') < CopiesIn(t, tasks))
           => token' = Null
       /\ \A t \in BagToSet(tasks') :
             (IsRequest(t) /\ CopiesIn(t, tasks') > CopiesIn(t, tasks)) => t.tok = token'
       /\ token # ExpiredToken => token' # ExpiredToken
      ]_vars

\* a request sent with the expired token has been answered 401; a request
\* sent before the answer still carries the expired token, one sent after it
\* carries none
TokenClearedOn401Witness ==
    /\ token = Null
    /\ uncaught # {}
    /\ \E t \in TaskSet : IsRequest(t) /\ t.tok = ExpiredToken
    /\ \E t \in TaskSet : IsRequest(t) /\ t.tok = Null

(***************************************************************************)
(* The privileged endpoints, with the requests they reject: the chain      *)
(* authRequired, adminRequired, handler of GET /api/admin/orders and of    *)
(* PATCH /api/admin/orders/:id.  call holds the last request and its       *)
(* response, and the tables as they were before it.                        *)
(***************************************************************************)
\* bearer tokens of a request: none, one that does not verify, those of users
RequestTokens == {Null, ExpiredToken} \cup UserIds

\* the HTTP status the middleware chain of an administrative route answers
AdminRouteStatus(tok) ==
    IF ~authRequired(tok) THEN 401
    ELSE IF ~adminRequired(tok) THEN 403
    ELSE 200

\* PATCH /api/admin/orders/:id with bearer token tok
ServePatchOrder(tok, id, status) ==
    /\ orders' = IF AdminRouteStatus(tok) = 200 THEN updateOrderStatus(orders, id, status) ELSE orders
    /\ call' = [op |-> "patchOrder", tok |-> tok, id |-> id, status |-> status,
                code |-> AdminRouteStatus(tok), body |-> <<>>,
                ordersBefore |-> orders, productsBefore |-> srvProducts]
    /\ UNCHANGED <<currentUser, token, cart, products, appFlags, orderLists, uncaught,
                   storage, srvProducts, srvUsers, tasks>>

\* GET /api/admin/orders with bearer token tok
ServeAllOrders(tok) ==
    /\ call' = [op |-> "allOrders", tok |-> tok, id |-> 0, status |-> "",
                code |-> AdminRouteStatus(tok),
                body |-> IF AdminRouteStatus(tok) = 200 THEN getAllOrders ELSE <<>>,
                ordersBefore |-> orders, productsBefore |-> srvProducts]
    /\ UNCHANGED <<currentUser, token, cart, products, appFlags, orderLists, uncaught,
                   storage, server, tasks>>

InitPrivileged ==
    /\ currentUser = Null
    /\ token = Null
    /\ cart = <<>>
    /\ products = <<>>
    /\ submittingOrder = FALSE
    /\ addToCartPending = {}
    /\ orderStatusPending = {}
    /\ adminOrdersRefreshing = FALSE
    /\ userOrders = <<>>
    /\ adminOrders = <<>>
    /\ uncaught = {}
    /\ storage = EmptyStorage
    /\ srvProducts = InitialProducts
    /\ orders = <<>>
    /\ srvUsers = ProfilesOf(FilledForm)
    /\ tasks = EmptyBag
    /\ call = NoCall

NextPrivileged ==
    \/ \E u \in UserIds : PostOrder(u, CatalogCart, "new")
    \/ \E tok \in RequestTokens, id \in 1..MaxOrders, status \in StatusButtons :
          ServePatchOrder(tok, id, status)
    \/ \E tok \in RequestTokens : ServeAllOrders(tok)

SpecPrivileged == InitPrivileged /\ [][NextPrivileged]_vars

\* C19: a request to setOrderStatus or listAllOrders without a token that
\* verifies is answered 401 Unauthorized, one with the token of a user who is
\* no administrator 403 Forbidden; a rejected request returns no order and
\* leaves every order and every product as it was
PrivilegedRequestsRejected ==
    [][(call' # call /\ call'.op \in {"patchOrder", "allOrders"}) =>
          /\ call'.tok \notin UserIds => call'.code = 401
          /\ (call'.tok \in UserIds /\ call'.tok \notin Admins) => call'.code = 403
          /\ call'.tok \in Admins => call'.code = 200
          /\ call'.code # 200 =>
                /\ orders' = orders
                /\ srvProducts' = srvProducts
                /\ call'.body = <<>>
      ]_vars

\* a user who is no administrator has asked to mark an order of the table
\* done and was answered 403; the order is still new
PrivilegedRequestsRejectedWitness ==
    /\ call.op = "patchOrder"
    /\ call.tok = "u2" /\ call.code = 403
    /\ call.status = "done"
    /\ call.id \in 1..Len(orders)
    /\ orders = call.ordersBefore
    /\ orders[call.id].status = "new"

(***************************************************************************)
(* handleAuth: login and registration.                                     *)
(***************************************************************************)

\* up to the await of api.login or api.register
HandleAuth(mode, u) ==
    /\ currentUser = Null
    /\ ~IdentityBusy
    /\ tasks' = tasks (+) One([kind |-> "auth", pc |-> mode, mode |-> mode, arg |-> u])
    /\ UNCHANGED <<currentUser, token, cart, products, appFlags, orderLists, uncaught,
                   storage, server, call>>

\* api.login or api.register answers: setToken(token) and fetchProfile(), or
\* the catch block
AuthAnswer(t) ==
    /\ t \in TasksOf("auth") /\ t.pc \in {"login", "register"}
    /\ \E outcome \in {"ok", "error"} :
          \/ /\ outcome = "ok"
             /\ token' = t.arg
             /\ tasks' = (tasks (-) One(t)) (+)
                              One([kind |-> "auth", pc |-> "fetchProfile", mode |-> t.mode, tok |-> t.arg])
          \/ /\ outcome = "error"
             /\ tasks' = tasks (-) One(t)
             /\ UNCHANGED token
    /\ UNCHANGED <<currentUser, cart, products, appFlags, orderLists, uncaught, storage, server, call>>

\* api.me answers: setCurrentUser(prof); then loadCartForCurrentUser(prof) in
\* login mode, window.storage.set(cartKeyFor(prof), "[]") in register mode
AuthProfileAnswer(t) ==
    /\ t \in TasksOf("auth") /\ t.pc = "fetchProfile"
    /\ \E outcome \in Outcomes(t.tok, FALSE) :
          LET prof == ProfileOf(t.tok, outcome)
          IN  /\ token' = TokenAfter(outcome)
              /\ currentUser' = prof
              /\ IF t.mode = "login"
                 THEN /\ tasks' = ((tasks (-) One(t)) (+) One(LoadTask("auth", prof)))
                                      (+) CartKeyEffect(prof)
                      /\ UNCHANGED storage
                 ELSE /\ tasks' = ((tasks (-) One(t)) (+)
                                       One([kind |-> "auth", pc |-> "registerSet", user |-> prof]))
                                      (+) CartKeyEffect(prof)
                      /\ storage' = [storage EXCEPT ![cartKeyFor(prof)] = JSONstringify(<<>>)]
    /\ UNCHANGED <<cart, products, appFlags, orderLists, uncaught, server, call>>

\* register mode, after the await of window.storage.set: setCart([]), the
\* notification, then loadProductsAndCategories()
AuthRegisterSaved(t) ==
    /\ t \in TasksOf("auth") /\ t.pc = "registerSet"
    /\ cart' = <<>>
    /\ tasks' = (tasks (-) One(t)) (+) One([kind |-> "auth", pc |-> "loadProducts", mode |-> "register", user |-> t.user])
    /\ UNCHANGED <<currentUser, token, products, appFlags, orderLists, uncaught, storage, server, call>>

\* login mode: setCart(migrated), the welcome notification, then
\* loadProductsAndCategories()
AuthLoaded(t) ==
    /\ t \in TasksOf("auth") /\ t.pc \in LoadPcs /\ LoadNext(t, storage).pc = "loaded"
    /\ cart' = LoadNext(t, storage).val
    /\ tasks' = (tasks (-) One(t)) (+) One([kind |-> "auth", pc |-> "loadProducts", mode |-> "login", user |-> t.user])
    /\ UNCHANGED <<currentUser, token, products, appFlags, orderLists, uncaught, storage, server, call>>

\* the catalog answers; loadUserOrders() and, in login mode for an admin,
\* loadAdminOrders() of the closure of the guest render that opened the modal:
\* currentUser is null there
AuthProductsAnswer(t) ==
    /\ t \in TasksOf("auth") /\ t.pc = "loadProducts"
    /\ \E outcome \in {"ok", "error"} : products' = ProductsAfter(outcome)
    /\ userOrders' = <<>>
    /\ adminOrders' = IF t.mode = "login" /\ t.user # Null /\ IsAdmin(t.user) THEN <<>> ELSE adminOrders
    /\ tasks' = tasks (-) One(t)
    /\ UNCHANGED <<currentUser, token, cart, appFlags, uncaught, storage, server, call>>

(***************************************************************************)
(* Identity transitions of one browser session: a guest signs in or        *)
(* registers, a signed-in user signs out.                                  *)
(***************************************************************************)
InitIdentity ==
    /\ currentUser = Null
    /\ token = Null
    /\ cart = <<>>
    /\ products = InitialProducts
    /\ submittingOrder = FALSE
    /\ addToCartPending = {}
    /\ orderStatusPending = {}
    /\ adminOrdersRefreshing = FALSE
    /\ userOrders = <<>>
    /\ adminOrders = <<>>
    /\ uncaught = {}
    /\ storage \in PriorStorages
    /\ srvProducts = InitialProducts
    /\ orders = <<>>
    /\ srvUsers = ProfilesOf(FilledForm)
    /\ tasks = EmptyBag
    /\ call = NoCall

NextIdentity ==
    \/ \E mode \in {"login", "register"}, u \in UserIds : HandleAuth(mode, u)
    \/ \E t \in TaskSet : AuthAnswer(t)
    \/ \E t \in TaskSet : AuthProfileAnswer(t)
    \/ \E t \in TaskSet : AuthRegisterSaved(t)
    \/ \E t \in TaskSet : AuthLoaded(t)
    \/ \E t \in TaskSet : AuthProductsAnswer(t)
    \/ HandleLogout
    \/ \E t \in TaskSet : LoadStep(t)
    \/ \E t \in TaskSet : EffectLoaded(t)
    \/ \E t \in TaskSet : LogoutLoaded(t)

SpecIdentity == InitIdentity /\ [][NextIdentity]_vars

\* the tasks that end in a setCart: a load at its first storage.get, and the
\* window.storage.set of the registration
StartsCartReplacement(t) ==
    /\ t.kind \in {"load", "logout", "mount", "auth"}
    /\ t.pc \in {"get", "registerSet"}

\* the cart replacements the tasks added to bag b start for the key k
ReplacementsStarted(b, k) ==
    BagCardinality([t \in {x \in BagToSet(b) : StartsCartReplacement(x) /\ cartKeyFor(x.user) = k}
                       |-> b[t]])

\* C20 as stated: a step that changes the cart key of the session (login,
\* logout, registration) starts exactly one load, or other replacement of the
\* cart, for the new key
OneLoadPerKeyChange ==
    [][cartKeyFor(currentUser') # cartKeyFor(currentUser) =>
          ReplacementsStarted(tasks' (-) tasks, cartKeyFor(currentUser')) = 1
      ]_vars

\* the cart persisted under the key of the identity current after the step,
\* an absent blob counting as the empty cart
CurrentKeyContentNext ==
    IF storage'[cartKeyFor(currentUser')] = NoBlob THEN <<>>
    ELSE JSONparse(storage'[cartKeyFor(currentUser')])

\* C21 as stated: a step that changes the identity of a session whose cart
\* has rows leaves in memory the cart of the new identity key, never the rows
\* of the identity before the step
CartLoadedBeforeIdentityShown ==
    [][(currentUser' # currentUser /\ cart # <<>>) => cart' = CurrentKeyContentNext]_vars

(***************************************************************************)
(* The cart page and the catalog of a signed-in session, with the await    *)
(* of window.storage.set inside saveCart as a step of its own: the         *)
(* CartPage buttons and handleAddToCart.                                   *)
(***************************************************************************)
\* CartPage buttons: onInc(product.id, -1), onInc(product.id, +1) and
\* onSetQty(product.id, 0), up to the await of window.storage.set
CartPageClick(pid, button) ==
    LET nextQty == CASE button = "minus" -> getQtyInCart(cart, pid) - 1
                     [] button = "plus" -> getQtyInCart(cart, pid) + 1
                     [] button = "remove" -> 0
    IN  /\ RenderedRow(pid)
        /\ nextQty <= MaxQty
        /\ BagCardinality(BagOfKind("setQty")) < MaxCartCalls
        /\ setQtyForProduct(pid, nextQty)
        /\ tasks' = tasks (+) One([kind |-> "setQty", pc |-> "save", arg |-> pid, button |-> button])
        /\ UNCHANGED <<currentUser, token, products, appFlags, orderLists, uncaught, server, call>>

\* the await of window.storage.set resolves: setQtyForProduct returns
CartPageSaved(t) ==
    /\ t \in TasksOf("setQty")
    /\ tasks' = tasks (-) One(t)
    /\ UNCHANGED <<currentUser, token, cart, products, appFlags, orderLists, uncaught,
                   storage, server, call>>

NextCartPage ==
    \/ \E pid \in ProductIds, button \in {"minus", "plus", "remove"} : CartPageClick(pid, button)
    \/ \E t \in TaskSet : CartPageSaved(t)
    \/ \E pid \in ProductIds, written \in BOOLEAN : HandleAddToCart(pid, written)
    \/ \E t \in TaskSet : AddToCartSaved(t)

SpecCartPage == InitSubmit /\ [][NextCartPage]_vars

\* the quantity changes of product pid that have not resolved yet
CartCallsFor(pid) ==
    BagCardinality([t \in {x \in TaskSet : x.kind \in {"setQty", "addToCart"} /\ x.arg = pid}
                       |-> tasks[t]])

\* C22 as stated: no setQty or incQty for a product is started before the
\* previous one for that product has resolved, from whichever button
CartCallsSerialized == \A pid \in ProductIds : CartCallsFor(pid) <= 1

\* the cart persisted under the key of the current identity, an absent blob
\* counting as the empty cart
CurrentKeyContent ==
    IF storage[activeCartKey] = NoBlob THEN <<>> ELSE JSONparse(storage[activeCartKey])

\* no load and no handler that ends in a cart write is in flight
CartIdle == ~ \E t \in TaskSet : t.kind \in {"load", "mount", "logout", "auth", "deleteProduct", "submit"}

\* C23 as stated: when the cart operations started so far have resolved and
\* none is in flight, the blob persisted under the current identity key
\* equals the in-memory cart
PersistedMirror == CartIdle => cart = CurrentKeyContent

(***************************************************************************)
(* Checkout: an administrator at the cart page presses the submit button   *)
(* with the order form as typed, while the catalog changes on the server   *)
(* and is reloaded by a product deletion of the same session.              *)
(***************************************************************************)
\* the submit button pressed with orderForm = form; call records the press.
\* A disabled button invokes no handler
OnSubmitOrder(form) ==
    /\ \E pid \in ProductIds : RenderedRow(pid)
    /\ call' = [op |-> "submitOrder", form |-> form]
    /\ IF SubmitDisabled(form)
       THEN UNCHANGED <<currentUser, token, cart, products, appFlags, orderLists, uncaught,
                        storage, server, tasks>>
       ELSE SubmitOrderStarts(form)

InitCheckout ==
    /\ currentUser = "u1"
    /\ token = "u1"
    /\ cart = CatalogCart
    /\ products = InitialProducts
    /\ submittingOrder = FALSE
    /\ addToCartPending = {}
    /\ orderStatusPending = {}
    /\ adminOrdersRefreshing = FALSE
    /\ userOrders = <<>>
    /\ adminOrders = <<>>
    /\ uncaught = {}
    /\ storage = [EmptyStorage EXCEPT ![cartKeyFor("u1")] = JSONstringify(CatalogCart)]
    /\ srvProducts = InitialProducts
    /\ orders = <<>>
    /\ srvUsers = ProfilesOf([name |-> "", phone |-> "", address |-> ""])
    /\ tasks = EmptyBag
    /\ call = NoCall

NextCheckout ==
    \/ \E form \in [name : {"", "Ann"}, phone : {"", "1001"}, address : {"", "Minsk"}] :
          OnSubmitOrder(form)
    \/ \E t \in TaskSet : SubmitProfileAnswer(t)
    \/ \E t \in TaskSet : SubmitOrderAnswer(t)
    \/ \E t \in TaskSet : SubmitSaved(t)
    \/ \E t \in TaskSet : SubmitMyOrdersAnswer(t)
    \/ \E t \in TaskSet : SubmitAllOrdersAnswer(t)
    \/ \E pid \in ProductIds : HandleDeleteProduct(pid)
    \/ \E t \in TaskSet : DeleteProductAnswer(t)
    \/ \E t \in TaskSet : DeleteProductReloaded(t)
    \/ \E u \in Admins, id \in ProductIds, price \in PriceTexts : PutProduct(u, id, price)

SpecCheckout == InitCheckout /\ [][NextCheckout]_vars

FormComplete(form) == form.name # "" /\ form.phone # "" /\ form.address # ""

\* C24: a press of the submit button with an empty name, phone or address
\* starts nothing: no updateProfile and no createOrder is issued, the cart,
\* the storage and the server tables stay as they are; every submission in
\* flight carries a complete form
IncompleteFormRejected ==
    [][/\ (call' # call /\ call'.op = "submitOrder" /\ ~FormComplete(call'.form))
             => UNCHANGED <<tasks, cart, storage, server, submittingOrder>>
       /\ \A t \in BagToSet(tasks') :
             (t.kind = "submit" /\ t.pc = "updateProfile") => FormComplete(t.form)
       /\ \A i \in 1..Len(orders') :
             /\ orders'[i].order_info.name # ""
             /\ orders'[i].order_info.phone # ""
             /\ orders'[i].order_info.address # ""
      ]_vars

\* the button was pressed with an empty address while nothing else kept the
\* submission from starting: nothing is in flight, no order and no profile
\* update reached the server
IncompleteFormRejectedWitness ==
    /\ call.op = "submitOrder"
    /\ call.form = [name |-> "Ann", phone |-> "1001", address |-> ""]
    /\ currentUser # Null
    /\ \E pid \in ProductIds : RenderedRow(pid)
    /\ ~submittingOrder
    /\ tasks = EmptyBag
    /\ orders = <<>>
    /\ srvUsers = ProfilesOf([name |-> "", phone |-> "", address |-> ""])
    /\ cart = CatalogCart

\* the sum over the lines of an items list of parsePrice(price) * qty
RECURSIVE ItemsTotal(_)
ItemsTotal(items) ==
    IF items = <<>> THEN 0
    ELSE priceToNumber(Head(items).price) * Head(items).qty + ItemsTotal(Tail(items))

\* C25: the total of every createOrder request, and of every order stored
\* from one, is the sum of price * qty over the items of that same request,
\* whatever the catalog has become while the submission was in flight
TotalFromSnapshot ==
    /\ \A t \in TasksOf("submit") : t.pc = "createOrder" => t.body.total = ItemsTotal(t.body.items)
    /\ \A i \in 1..Len(orders) : orders[i].total = ItemsTotal(orders[i].items)

\* a createOrder request is in flight whose snapshot holds a product at a
\* price the reloaded catalog no longer has, and a product the reloaded
\* catalog has lost
TotalFromSnapshotWitness ==
    \E t \in TasksOf("submit") :
        /\ t.pc = "createOrder"
        /\ t.body.total > 0
        /\ \E k \in 1..Len(t.body.items) :
              /\ HasProduct(products, t.body.items[k].id)
              /\ getProductById(products, t.body.items[k].id).price # t.body.items[k].price
        /\ \E k \in 1..Len(t.body.items) : ~HasProduct(products, t.body.items[k].id)

(***************************************************************************)
(* The administrative order list around a status change.                   *)
(***************************************************************************)
\* the status changes whose api.setOrderStatus has answered with success
StatusChanged == {t \in TasksOf("setStatus") : t.pc = "getAllOrders"}

AddToCartCallsFor(pid) ==
    BagCardinality([t \in {x \in TasksOf("addToCart") : x.arg = pid} |-> tasks[t]])

\* C27: the add-to-cart guard is per product: at most one add-to-cart of a
\* product is in flight, exactly while the product is marked pending, and a
\* further press for it is ignored; while an add-to-cart of product b is in
\* flight, a press for another product a of the catalog is accepted
AddToCartGuardPerProduct ==
    /\ \A pid \in ProductIds :
          /\ AddToCartCallsFor(pid) <= 1
          /\ AddToCartCallsFor(pid) = 1 <=> pid \in addToCartPending
          /\ pid \in addToCartPending => ~ ENABLED HandleAddToCart(pid, TRUE)
    /\ \A a, b \in ProductIds :
          (/\ b \in addToCartPending /\ a \notin addToCartPending
           /\ currentUser # Null /\ HasProduct(products, a)
           /\ getQtyInCart(cart, a) < MaxQty)
          => ENABLED HandleAddToCart(a, TRUE)

\* add-to-cart calls of two products are in flight at once and both have
\* raised their product's quantity
AddToCartGuardPerProductWitness ==
    \E t1, t2 \in TasksOf("addToCart") :
       /\ t1.arg # t2.arg
       /\ {t1.arg, t2.arg} \subseteq addToCartPending
       /\ getQtyInCart(cart, t1.arg) >= 1 /\ getQtyInCart(cart, t2.arg) >= 1

\* the quantity changes in flight, and those a step starts
CartCalls == {t \in TaskSet : t.kind \in {"setQty", "addToCart"}}
CartCallsStarted == {t \in DOMAIN tasks' : /\ t.kind \in {"setQty", "addToCart"}
                                           /\ CopiesIn(t, tasks') > CopiesIn(t, tasks)}

\* the quantity the call t asks for, given the quantity q its render shows
RequestedQty(t, q) ==
    CASE t.kind = "addToCart" -> q + 1
      [] t.button = "plus" -> q + 1
      [] t.button = "minus" -> Max(0, q - 1)
      [] t.button = "remove" -> 0

\* whether the window.storage.set of the call t stores its blob
SetStores(t) == t.kind = "setQty" \/ t.written

\* C28: a quantity change of product b that starts while a change of another
\* product a is still in flight keeps what the cart holds for every other
\* product, a's change included, sets b's quantity as asked, and persists
\* that whole cart under the current key when the store takes the write;
\* the step in which either change resolves alters neither the cart nor the
\* store, so both changes are in the final cart and blob
NoLostCartUpdate ==
    [][/\ \A t \in CartCallsStarted :
             (\E o \in CartCalls : o.arg # t.arg)
             => /\ \A a \in ProductIds \ {t.arg} :
                      getQtyInCart(cart', a) = getQtyInCart(cart, a)
                /\ getQtyInCart(cart', t.arg) = RequestedQty(t, getQtyInCart(cart, t.arg))
                /\ SetStores(t) => storage'[activeCartKey] = JSONstringify(cart')
       /\ (\E t \in CartCalls : CopiesIn(t, tasks') < CopiesIn(t, tasks))
             => cart' = cart /\ storage' = storage
      ]_vars

\* a removal of one product and an add-to-cart of another are both in flight,
\* and the cart and the blob under the current key have both changes
NoLostCartUpdateWitness ==
    \E t1, t2 \in CartCalls :
       /\ t1.arg # t2.arg
       /\ t1.kind = "setQty" /\ t1.button = "remove"
       /\ t2.kind = "addToCart" /\ t2.written
       /\ ~HasRow(cart, t1.arg) /\ getQtyInCart(cart, t2.arg) = MaxQty
       /\ storage[activeCartKey] = JSONstringify(cart)

(***************************************************************************)
(* Cart writes of handlers that outlive the identity they started under.   *)
(***************************************************************************)
\* the handlers in flight that end in a saveCart and were started under an
\* identity other than the current one
StaleCartWriters ==
    {t \in TaskSet : t.kind \in {"deleteProduct", "submit"} /\ t.user # currentUser}

\* C29 as stated: the step in which a cart-writing handler started under
\* another identity resolves leaves the in-memory cart and the blob under the
\* current identity's key as they were
StaleWriteLeavesNewIdentity ==
    [][\A t \in StaleCartWriters :
          CopiesIn(t, tasks') < CopiesIn(t, tasks)
          => /\ cart' = cart
             /\ storage'[activeCartKey] = storage[activeCartKey]
      ]_vars

(***************************************************************************)
(* Order of the two requests of a submission.                              *)
(***************************************************************************)
\* the submissions awaiting the answer of the request named by pc
SubmitsAt(pc) == {t \in TasksOf("submit") : t.pc = pc}
\* the submission t leaves its request in this step
SubmitLeaves(t) == CopiesIn(t, tasks') < CopiesIn(t, tasks)
\* the profile row of the users table holds what the form of t says
ProfileInEffect(users, tok, info) ==
    /\ tok \in DOMAIN users
    /\ users[tok] = [name |-> info.name, address |-> info.address]

\* C30: createOrder is sent only in the step in which updateProfile of the
\* same submission succeeded, with the profile already updated; a step in
\* which updateProfile fails creates no order and leaves the cart and its
\* blob; an order is inserted only for a createOrder in flight, with the
\* profile update in effect; a step in which createOrder fails leaves the
\* profile as updateProfile set it
ProfileUpdatePrecedesOrder ==
    [][/\ \A n \in DOMAIN tasks' :
             (n.kind = "submit" /\ n.pc = "createOrder"
                  /\ CopiesIn(n, tasks') > CopiesIn(n, tasks))
             => \E t \in SubmitsAt("updateProfile") :
                   /\ SubmitLeaves(t)
                   /\ ProfileInEffect(srvUsers', t.tok, t.form)
                   /\ ProfileInEffect(srvUsers', t.tok, n.body.order_info)
       /\ \A t \in SubmitsAt("updateProfile") :
             (SubmitLeaves(t) /\ SubmitsAt("createOrder")' = SubmitsAt("createOrder"))
             => UNCHANGED <<orders, cart, storage>>
       /\ orders' # orders
             => \E t \in SubmitsAt("createOrder") :
                   /\ SubmitLeaves(t)
                   /\ ProfileInEffect(srvUsers, t.tok, t.body.order_info)
                   /\ srvUsers' = srvUsers
       /\ \A t \in SubmitsAt("createOrder") :
             (SubmitLeaves(t) /\ SubmitsAt("save")' = SubmitsAt("save"))
             => /\ srvUsers' = srvUsers
                /\ ProfileInEffect(srvUsers', t.user, t.body.order_info)
                /\ UNCHANGED <<cart, storage>>
      ]_vars

\* createOrder was rejected after updateProfile had succeeded: the handler has
\* ended with a rejection, no order exists, the cart is as it was, and the
\* profile holds the name and the address of the form
ProfileUpdatePrecedesOrderWitness ==
    /\ TasksOf("submit") = {} /\ "submit" \in uncaught
    /\ orders = <<>>
    /\ cart = CatalogCart /\ storage[activeCartKey] = JSONstringify(cart)
    /\ ProfileInEffect(srvUsers, "u1", FilledForm)

====
